---- MODULE Spec2Model ----
(***************************************************************************)
(* Model of the bus-planner Telegram bot: the journey-planner Handler      *)
(* (pending location selections, click resolution), the user preference    *)
(* store and the stop-finder client.                                       *)
(*                                                                         *)
(* Strings that the code splits, parses or formats (callback data) are     *)
(* sequences of symbols: a symbol is a digit, "-", "_" or a word that       *)
(* holds no underscore.  Other strings (ids, names) are TLA+ strings.      *)
(***************************************************************************)
EXTENDS Integers, Sequences, FiniteSets, TLC

\* ------------------------------------------------------------------ bounds

MaxUsers == 2
MaxProcs == 2
MaxEvents == 3
MaxJourneys == 4
MaxCount == 5

Users == 1..MaxUsers
Procs == 1..MaxProcs
Roles == {"home", "work"}

\* ------------------------------------------------- journeyplanner.Location

Loc(id, name, type) == [ID |-> id, Name |-> name, Type |-> type]

L1 == Loc("dry:home", "Storgatan", "address")
L2 == Loc("dry:work", "Frosunda torg", "stop")
L3 == Loc("dry:alt", "Odenplan", "stop")
L4 == Loc("9091", "Odenplan Norra", "stop")
L5 == Loc("9092", "Odenplanvagen", "address")
L6 == Loc("9093", "Odengatan", "address")

\* What the stop-finder backend may answer with (resp.Locations).
BackendResponses ==
  { <<>>, <<L1>>, <<L1, L2>>, <<L2, L3, L1>>, <<L1, L2, L3, L4, L5, L6>> }

\* The limit handleSetHome / handleSetWork pass to StopFinder.
StopFinderLimit == 5

\* A stop finder that hands on all the backend returned.
StopFinder_NoLimit(respLocations, limit) == respLocations
\* A stop finder that cuts for every limit, also for one of zero or below.
StopFinder_AlwaysCuts(respLocations, limit) ==
  IF limit <= 0 THEN <<>>
  ELSE IF Len(respLocations) > limit THEN SubSeq(respLocations, 1, limit)
  ELSE respLocations
\* StopFinder's cut of the backend's list: locs[:limit] when limit > 0.
StopFinder(respLocations, limit) ==
  IF limit > 0 /\ Len(respLocations) > limit
  THEN SubSeq(respLocations, 1, limit)
  ELSE respLocations

\* ------------------------------------------------ strings as symbol lists

Digits == <<"0", "1", "2", "3", "4", "5", "6", "7", "8", "9">>
DigitSet == { Digits[i] : i \in 1..10 }
DigitVal(c) == CHOOSE d \in 0..9 : Digits[d + 1] = c

RECURSIVE NatToStr(_)
NatToStr(n) ==
  IF n < 10 THEN << Digits[n + 1] >>
  ELSE NatToStr(n \div 10) \o << Digits[(n % 10) + 1] >>

\* A %d that drops the sign.
Itoa_NoSign(n) == NatToStr(IF n < 0 THEN 0 - n ELSE n)
\* fmt's %d
Itoa(n) == IF n < 0 THEN <<"-">> \o NatToStr(0 - n) ELSE NatToStr(n)

RECURSIVE DigitsToNat(_, _)
DigitsToNat(s, acc) ==
  IF s = <<>> THEN acc
  ELSE DigitsToNat(Tail(s), acc * 10 + DigitVal(Head(s)))

\* strconv.Atoi / strconv.ParseInt(s, 10, 64): an optional sign, then one or
\* more digits.  [ok, val]
Atoi(s) ==
  LET signed == s # <<>> /\ Head(s) \in {"-", "+"}
      body == IF signed THEN Tail(s) ELSE s
      ok == body # <<>> /\ \A i \in 1..Len(body) : body[i] \in DigitSet
  IN  IF ~ok THEN [ok |-> FALSE, val |-> 0]
      ELSE [ok |-> TRUE,
            val |-> IF signed /\ Head(s) = "-"
                    THEN 0 - DigitsToNat(body, 0)
                    ELSE DigitsToNat(body, 0)]

RECURSIVE SplitAcc(_, _, _)
SplitAcc(s, cur, acc) ==
  IF s = <<>> THEN Append(acc, cur)
  ELSE IF Head(s) = "_" THEN SplitAcc(Tail(s), <<>>, Append(acc, cur))
  ELSE SplitAcc(Tail(s), Append(cur, Head(s)), acc)

\* strings.Split(data, "_")
Split(s) == SplitAcc(s, <<>>, <<>>)

\* The callback data a location prompt's button i carries:
\* fmt.Sprintf("homejp_%d_%d", userID, i)
ActionOf(role) == IF role = "home" THEN "homejp" ELSE "workjp"
ButtonData_OneBased(role, userID, i) ==
  << ActionOf(role) >> \o <<"_">> \o Itoa(userID) \o <<"_">> \o Itoa(i + 1)
ButtonData(role, userID, i) ==
  << ActionOf(role) >> \o <<"_">> \o Itoa(userID) \o <<"_">> \o Itoa(i)

\* fmt.Sprintf("priority_%d_leasttime", userID) and its two siblings
PriorityValues == {"leasttime", "leastinterchange", "leastwalking"}
PriorityData(userID, value) ==
  <<"priority">> \o <<"_">> \o Itoa(userID) \o <<"_">> \o << value >>

RECURSIVE TrimLeft(_)
TrimLeft(s) == IF s # <<>> /\ Head(s) = " " THEN TrimLeft(Tail(s)) ELSE s
RECURSIVE TrimRight(_)
TrimRight(s) ==
  IF s # <<>> /\ s[Len(s)] = " " THEN TrimRight(SubSeq(s, 1, Len(s) - 1)) ELSE s
\* strings.TrimSpace
TrimSpace_None(s) == s
TrimSpace(s) == TrimRight(TrimLeft(s))

\* ------------------------------------------------------------- variables

VARIABLES
  pendingHome,  \* Handler.pendingHome: userID -> []Location (a Go map)
  pendingWork,  \* Handler.pendingWork
  mu,           \* Handler.mu (sync.RWMutex): the writer and the readers
  prefs,        \* UserStore.prefs: userID -> UserPreferences (a Go map)
  procs,        \* the handler invocations in progress, one record each
  started,      \* how many updates have been dispatched so far
  issued,       \* how many pending lists have been stored so far (history)
  call,         \* the store call made last, when the store is driven directly
  render,       \* the journeys, the count and the text of the last rendering
  tzLoaded,     \* whether init found the Europe/Stockholm zone (stockholmTZ)
  match,        \* the arguments and the result of the last FuzzyMatch
  storeMu,      \* UserStore.mu (sync.RWMutex): the writer and the readers
  siteCache     \* bot.Handler.sites: the cached list of sites

vars == << pendingHome, pendingWork, mu, prefs, procs, started, issued, call, render, tzLoaded, match, storeMu, siteCache >>

\* ------------------------------------------------ journeyplanner/format.go

\* Timestamps are symbol lists: a date, "T", two digits of hours, ":", two of
\* minutes, ":", two of seconds, an optional "." and fraction digits, and the
\* zone: "Z", or a sign, two digits, ":", two digits.
Dates == <<"2024-01-15", "2024-01-16", "2024-07-15", "2024-07-16">>
DateSet == { Dates[i] : i \in 1..Len(Dates) }
\* The day number of a date, counted from 2024-01-01.
DayOf(date) ==
  CASE date = "2024-01-15" -> 14
    [] date = "2024-01-16" -> 15
    [] date = "2024-07-15" -> 196
    [] date = "2024-07-16" -> 197

TwoDigits(s, i) ==
  IF Len(s) >= i + 1 /\ s[i] \in DigitSet /\ s[i + 1] \in DigitSet
  THEN [ok |-> TRUE, val |-> DigitVal(s[i]) * 10 + DigitVal(s[i + 1])]
  ELSE [ok |-> FALSE, val |-> 0]

RECURSIVE SkipDigits(_, _)
SkipDigits(s, i) ==
  IF i <= Len(s) /\ s[i] \in DigitSet THEN SkipDigits(s, i + 1) ELSE i

\* time.Parse(time.RFC3339, timeStr): [ok, sec], sec being the instant in
\* seconds from 2024-01-01T00:00:00Z.  The fraction of a second is accepted
\* by the RFC3339 layout as well and is dropped here (instants are whole
\* seconds).
ParseRFC3339(s) ==
  LET bad == [ok |-> FALSE, sec |-> 0]
      hh == TwoDigits(s, 3)
      mm == TwoDigits(s, 6)
      ss == TwoDigits(s, 9)
      z == IF Len(s) >= 12 /\ s[11] = "." /\ s[12] \in DigitSet
           THEN SkipDigits(s, 12) ELSE 11
      oh == TwoDigits(s, z + 1)
      om == TwoDigits(s, z + 4)
      local == DayOf(s[1]) * 86400 + hh.val * 3600 + mm.val * 60 + ss.val
  IN  IF ~(/\ Len(s) >= 11 /\ s[1] \in DateSet /\ s[2] = "T"
           /\ hh.ok /\ s[5] = ":" /\ mm.ok /\ s[8] = ":" /\ ss.ok
           /\ hh.val < 24 /\ mm.val < 60 /\ ss.val < 60)
      THEN bad
      ELSE IF Len(s) = z /\ s[z] = "Z" THEN [ok |-> TRUE, sec |-> local]
      ELSE IF /\ Len(s) = z + 5 /\ s[z] \in {"+", "-"} /\ oh.ok /\ s[z + 3] = ":"
              /\ om.ok /\ oh.val < 24 /\ om.val < 60
      THEN [ok |-> TRUE,
            sec |-> IF s[z] = "+" THEN local - (oh.val * 3600 + om.val * 60)
                                  ELSE local + (oh.val * 3600 + om.val * 60)]
      ELSE bad

\* Europe/Stockholm: UTC+1, and UTC+2 in summer time (2024-03-31T01:00Z to
\* 2024-10-27T01:00Z).
SummerStart == 90 * 86400 + 3600
SummerEnd == 300 * 86400 + 3600
\* The offset of stockholmTZ at an instant; time.UTC when the zone could not
\* be loaded.
stockholmTZ(sec) ==
  IF ~tzLoaded THEN 0
  ELSE IF sec >= SummerStart /\ sec < SummerEnd THEN 7200 ELSE 3600

\* t.In(stockholmTZ).Format("15:04")
FormatHHMM(sec) ==
  LET local == sec + stockholmTZ(sec)
      ofDay == local % 86400
      h == ofDay \div 3600
      m == (ofDay % 3600) \div 60
  IN  << Digits[(h \div 10) + 1], Digits[(h % 10) + 1], ":",
         Digits[(m \div 10) + 1], Digits[(m % 10) + 1] >>

parseRFC3339ToLocal(timeStr) ==
  IF timeStr = <<>> THEN [ok |-> FALSE, sec |-> 0] ELSE ParseRFC3339(timeStr)

\* A conversion that drops what it cannot parse.
parseAndConvertToLocal_DropsRaw(timeStr) ==
  IF timeStr = <<>> \/ ~ParseRFC3339(timeStr).ok THEN <<>>
  ELSE FormatHHMM(ParseRFC3339(timeStr).sec)

parseAndConvertToLocal(timeStr) ==
  IF timeStr = <<>> THEN <<>>
  ELSE IF ~ParseRFC3339(timeStr).ok THEN timeStr
  ELSE FormatHHMM(ParseRFC3339(timeStr).sec)

\* A division that rounds toward minus infinity.
GoDiv_Floor(a, b) == a \div b

\* Go's integer division, which truncates toward zero.
GoDiv(a, b) == IF a >= 0 THEN a \div b ELSE 0 - ((0 - a) \div b)

\* durationMin := (duration + 59) / 60
durationMin_Floor(seconds) == GoDiv(seconds, 60)
durationMin(seconds) == GoDiv(seconds + 59, 60)

\* Product names are letter lists; every other text of a leg is a string.
UpperLetters ==
  << "A", "B", "C", "D", "E", "F", "G", "H", "I", "J", "K", "L", "M",
     "N", "O", "P", "Q", "R", "S", "T", "U", "V", "W", "X", "Y", "Z" >>
LowerLetters ==
  << "a", "b", "c", "d", "e", "f", "g", "h", "i", "j", "k", "l", "m",
     "n", "o", "p", "q", "r", "s", "t", "u", "v", "w", "x", "y", "z" >>
LowerOf(c) ==
  IF \E i \in 1..26 : UpperLetters[i] = c
  THEN LowerLetters[CHOOSE i \in 1..26 : UpperLetters[i] = c] ELSE c
UpperOf(c) ==
  IF \E i \in 1..26 : LowerLetters[i] = c
  THEN UpperLetters[CHOOSE i \in 1..26 : LowerLetters[i] = c] ELSE c
\* A lower-casing that leaves every letter as it is.
ToLower_None(s) == s

\* strings.ToLower
ToLower(s) == [i \in 1..Len(s) |-> LowerOf(s[i])]
\* strings.Title: the first letter of every word in upper case.
Title(s) ==
  [i \in 1..Len(s) |-> IF i = 1 \/ s[i - 1] = " " THEN UpperOf(s[i]) ELSE s[i]]

formatName(name) == IF name = "" THEN "(unknown)" ELSE name

\* A departure line that is drawn only when both times are given.
formatDepartureCompact_NeedsBoth(planned, estimated) ==
  IF parseAndConvertToLocal(planned) = <<>> \/ parseAndConvertToLocal(estimated) = <<>>
  THEN <<>>
  ELSE << <<"Depart:">> \o parseAndConvertToLocal(estimated) \o <<"(on time)">> >>

\* The departure line, or no line when neither time is given.
formatDepartureCompact(planned, estimated) ==
  LET plannedTime == parseAndConvertToLocal(planned)
      estimatedTime == IF parseAndConvertToLocal(estimated) = <<>>
                       THEN plannedTime
                       ELSE parseAndConvertToLocal(estimated)
      plannedT == parseRFC3339ToLocal(planned)
      estimatedT == parseRFC3339ToLocal(estimated)
      \* int(delta.Minutes())
      deltaMin == GoDiv(estimatedT.sec - plannedT.sec, 60)
  IN  IF plannedTime = <<>> /\ parseAndConvertToLocal(estimated) = <<>>
      THEN <<>>
      ELSE IF plannedTime = estimatedTime \/ plannedTime = <<>>
      THEN << <<"Depart:">> \o estimatedTime \o <<"(on time)">> >>
      ELSE IF plannedT.ok /\ estimatedT.ok /\ deltaMin > 0
      THEN << <<"Depart:">> \o plannedTime \o <<"->", "!">> \o estimatedTime
                \o <<"(+">> \o Itoa(deltaMin) \o <<"min)">> >>
      ELSE IF plannedT.ok /\ estimatedT.ok /\ deltaMin < 0
      THEN << <<"Depart:">> \o plannedTime \o <<"->">> \o estimatedTime
                \o <<"(">> \o Itoa(deltaMin) \o <<"min early)">> >>
      ELSE << <<"Depart:">> \o plannedTime \o <<"->", "!">> \o estimatedTime >>

\* A leg without a transportation descriptor has Transportation.nil.
NoTransportation ==
  [nil |-> TRUE, ProductName |-> <<>>, Number |-> "", Destination |-> ""]

\* The lines of one leg.
formatLeg(leg) ==
  LET t == leg.Transportation
      productName == IF t.nil THEN <<>> ELSE ToLower(TrimSpace(t.ProductName))
      line == IF t.nil THEN "" ELSE t.Number
      direction == IF t.nil THEN "" ELSE t.Destination
      names == << "  ", formatName(leg.Origin.Name), "->",
                  formatName(leg.Destination.Name) >>
      depart == formatDepartureCompact(leg.Origin.DepartureTimePlanned,
                                       leg.Origin.DepartureTimeEstimated)
      icon(i) == IF direction # "" THEN << i, line, "->", direction >>
                 ELSE << i, line >>
      methodName == IF Title(productName) = <<>> THEN <<"Transit">>
                    ELSE Title(productName)
  IN  CASE productName \in { <<"f", "o", "o", "t", "p", "a", "t", "h">>, <<>> } ->
             << <<"[walk]", "Walk">> \o Itoa(durationMin(leg.Duration)) \o <<"min">>,
                names >>
        [] productName = <<"b", "u", "s">> -> << icon("[bus]") >> \o depart \o << names >>
        [] productName = <<"m", "e", "t", "r", "o">> ->
             << icon("[metro]") >> \o depart \o << names >>
        [] productName = <<"t", "r", "a", "m">> ->
             << icon("[tram]") >> \o depart \o << names >>
        [] OTHER ->
             << IF direction # "" /\ line # ""
                THEN <<"[transit]">> \o methodName \o << line, "->", direction >>
                ELSE IF line # "" THEN <<"[transit]">> \o methodName \o << line >>
                ELSE <<"[transit]">> \o methodName >>
               \o depart \o << names >>

RECURSIVE ArrivalScan(_, _)
ArrivalScan(legs, i) ==
  IF i < 1 THEN <<>>
  ELSE IF legs[i].Destination.ArrivalTimeEstimated # <<>>
  THEN parseAndConvertToLocal(legs[i].Destination.ArrivalTimeEstimated)
  ELSE IF legs[i].Destination.ArrivalTimePlanned # <<>>
  THEN parseAndConvertToLocal(legs[i].Destination.ArrivalTimePlanned)
  ELSE ArrivalScan(legs, i - 1)

\* A getJourneyArrivalTime that looks at the last leg only.
getJourneyArrivalTime_LastLegOnly(j) ==
  IF j.Legs = <<>> THEN <<>>
  ELSE LET d == j.Legs[Len(j.Legs)].Destination
       IN  IF d.ArrivalTimeEstimated # <<>>
           THEN parseAndConvertToLocal(d.ArrivalTimeEstimated)
           ELSE parseAndConvertToLocal(d.ArrivalTimePlanned)

\* for i := len(j.Legs) - 1; i >= 0; i-- { ... }
getJourneyArrivalTime(j) == ArrivalScan(j.Legs, Len(j.Legs))

Separator == <<"----------------------">>
BlankLine == <<>>

RECURSIVE LegLines(_, _)
LegLines(legs, i) ==
  IF i > Len(legs) THEN <<>>
  ELSE formatLeg(legs[i]) \o << BlankLine >> \o LegLines(legs, i + 1)

\* What one pass of FormatJourneys' loop writes for journeys[i] (i from 1).
OptionLines(j, i) ==
  LET duration == IF j.TripRtDuration = 0 THEN j.TripDuration ELSE j.TripRtDuration
      arrivalTime == getJourneyArrivalTime(j)
      header == IF arrivalTime # <<>>
                THEN <<"Option">> \o Itoa(i) \o <<"(">> \o Itoa(durationMin(duration))
                       \o <<"min,", "arrives">> \o arrivalTime \o <<")">>
                ELSE <<"Option">> \o Itoa(i) \o <<"(">> \o Itoa(durationMin(duration))
                       \o <<"min)">>
  IN  << Separator, header, BlankLine >> \o LegLines(j.Legs, 1) \o << BlankLine >>

RECURSIVE TrimBlankLines(_)
\* strings.TrimSpace on the text: the blank lines at its end go.
TrimBlankLines(lines) ==
  IF lines # <<>> /\ lines[Len(lines)] = BlankLine
  THEN TrimBlankLines(SubSeq(lines, 1, Len(lines) - 1)) ELSE lines

RECURSIVE OptionsUpTo(_, _, _)
OptionsUpTo(journeys, i, count) ==
  IF i > count THEN <<>>
  ELSE OptionLines(journeys[i], i) \o OptionsUpTo(journeys, i + 1, count)

\* if count <= 0 { count = 3 }
DefaultCount == 3

\* if len(journeys) < count { count = len(journeys) }
ClampCount_Short(count, n) == IF n < count THEN n ELSE count - 1
ClampCount(count, n) == IF n < count THEN n ELSE count

\* A FormatJourneys that writes its two labels above the options.
FormatJourneys_Labelled(originLabel, destinationLabel, journeys, count) ==
  << << originLabel, "->", destinationLabel >> >>
    \o TrimBlankLines(OptionsUpTo(journeys, 1,
         ClampCount(IF count <= 0 THEN DefaultCount ELSE count, Len(journeys))))

\* A FormatJourneys without the early return for no journeys.
FormatJourneys_NoSentinel(originLabel, destinationLabel, journeys, count) ==
  TrimBlankLines(OptionsUpTo(journeys, 1,
     ClampCount(IF count <= 0 THEN DefaultCount ELSE count, Len(journeys))))

FormatJourneys(originLabel, destinationLabel, journeys, count) ==
  LET c == ClampCount(IF count <= 0 THEN DefaultCount ELSE count, Len(journeys))
  IN  IF c = 0 THEN << <<"No journeys found.">> >>
      ELSE TrimBlankLines(OptionsUpTo(journeys, 1, c))

\* The legs and journeys a trip search may answer with.
NoPoint ==
  [Name |-> "", DepartureTimePlanned |-> <<>>, DepartureTimeEstimated |-> <<>>,
   ArrivalTimePlanned |-> <<>>, ArrivalTimeEstimated |-> <<>>]
Stamp(date, h1, h2, m1, m2) == << date, "T", h1, h2, ":", m1, m2, ":", "0", "0", "Z" >>

WalkLeg ==
  [Duration |-> 181, Origin |-> [NoPoint EXCEPT !.Name = "Home"],
   Destination |-> [NoPoint EXCEPT !.Name = "Stop A"],
   Transportation |-> NoTransportation]
BusLeg ==
  [Duration |-> 600,
   Origin |-> [NoPoint EXCEPT !.Name = "Stop A",
                 !.DepartureTimePlanned = Stamp("2024-01-15", "0", "8", "0", "0"),
                 !.DepartureTimeEstimated = Stamp("2024-01-15", "0", "8", "0", "3")],
   Destination |-> [NoPoint EXCEPT
                 !.ArrivalTimePlanned = Stamp("2024-01-15", "0", "8", "1", "0"),
                 !.ArrivalTimeEstimated = Stamp("2024-01-15", "0", "8", "1", "3")],
   Transportation |-> [nil |-> FALSE, ProductName |-> <<"B", "u", "s">>,
                       Number |-> "177", Destination |-> "Odenplan"]]
MetroLeg ==
  [Duration |-> 300,
   Origin |-> [NoPoint EXCEPT !.Name = "Odenplan",
                 !.DepartureTimePlanned = <<"soon">>],
   Destination |-> [NoPoint EXCEPT !.Name = "T-Centralen",
                 !.ArrivalTimePlanned = Stamp("2024-07-15", "2", "3", "3", "0")],
   Transportation |-> [nil |-> FALSE, ProductName |-> <<"m", "e", "t", "r", "o">>,
                       Number |-> "18", Destination |-> ""]]

Journey(id, duration, rtDuration, legs) ==
  [TripID |-> id, TripDuration |-> duration, TripRtDuration |-> rtDuration,
   Legs |-> legs]

\* Their durations in minutes are 3, 21, 4 and 10.
J1 == Journey("a", 179, 0, << WalkLeg >>)
J2 == Journey("b", 1200, 1260, << WalkLeg, BusLeg >>)
J3 == Journey("c", 181, 0, <<>>)
J4 == Journey("d", 540, 600, << MetroLeg, WalkLeg >>)
JourneyPool == {J1, J2, J3, J4}

\* ------------------------------------------------------------------- state


\* A Go map is a function whose domain is the set of keys it holds.
EmptyMap == [u \in {} |-> <<>>]
MapPut(m, k, v) == (k :> v) @@ m
MapDelete(m, k) == [x \in DOMAIN m \ {k} |-> m[x]]
\* m[k] for a map of slices: the nil slice when the key is absent.
MapGet(m, k) == IF k \in DOMAIN m THEN m[k] ELSE <<>>

NoLoc == Loc("", "", "")
NoCall == [op |-> "", userID |-> 0, arg |-> "", failed |-> FALSE, ret |-> <<>>]
NoRender ==
  [journeys |-> <<>>, count |-> 0, out |-> <<>>, done |-> FALSE,
   again |-> <<>>, twice |-> FALSE, between |-> 0]
NoMatch == [query |-> <<>>, sites |-> <<>>, count |-> 0, out |-> <<>>, done |-> FALSE]
NoPrefs == [HomeLocation |-> "", WorkLocation |-> "", RoutePriority |-> <<>>]

\* -------------------------------------------------------- store.UserStore

GetPrefs(userID) == IF userID \in DOMAIN prefs THEN prefs[userID] ELSE NoPrefs

\* if _, exists := s.prefs[userID]; !exists { s.prefs[userID] = &UserPreferences{} }
EnsurePrefs_Reset(userID) == MapPut(prefs, userID, NoPrefs)
EnsurePrefs(userID) ==
  IF userID \in DOMAIN prefs THEN prefs ELSE MapPut(prefs, userID, NoPrefs)

\* The in-memory effect of SetHome / SetWork / SetPriority; saveToFile runs
\* after it and its error is what the call returns.
SetHome(userID, location) ==
  [EnsurePrefs(userID) EXCEPT ![userID].HomeLocation = location]
SetWork(userID, location) ==
  [EnsurePrefs(userID) EXCEPT ![userID].WorkLocation = location]
SetPriority(userID, priority) ==
  [EnsurePrefs(userID) EXCEPT ![userID].RoutePriority = priority]

SetLocation(role, userID, location) ==
  IF role = "home" THEN SetHome(userID, location) ELSE SetWork(userID, location)

LocationOf(role, p) == IF role = "home" THEN p.HomeLocation ELSE p.WorkLocation

\* ------------------------------------------------------- chat transport

\* What a handler sends: plain text, a prompt with buttons, or an edit of
\* the prompt the click came from.  A text is its template and its argument.
TextMsg(template, arg) ==
  [kind |-> "text", text |-> << template, arg >>, buttons |-> <<>>]
EditMsg(template, arg) ==
  [kind |-> "edit", text |-> << template, arg >>, buttons |-> <<>>]
PromptMsg(query, buttons) ==
  [kind |-> "prompt", text |-> << "Multiple matches", query >>, buttons |-> buttons]

\* The message of a click that came from no prompt of this handler.
NoMessage == TextMsg("", "")

SetConfirmation(role) == IF role = "home" THEN "Home set to" ELSE "Work set to"

\* for i, loc := range locs { ... NewInlineKeyboardButtonData(label, data) }
PromptButtons(role, userID, locs) ==
  [i \in 1..Len(locs) |->
     [label |-> << locs[i].Name, locs[i].Type >>,
      data |-> ButtonData(role, userID, i - 1)]]

\* ------------------------------------------------------ handler records

Idle ==
  [kind |-> "none", pc |-> "idle", userID |-> 0, role |-> "", text |-> <<>>,
   query |-> "", searches |-> 0, lookup |-> "", saveErr |-> FALSE,
   origin |-> "", destination |-> "", routeType |-> <<>>, trips |-> 0,
   formatted |-> <<>>,
   locs |-> <<>>, data |-> <<>>, action |-> <<>>, selectionIndex |-> 0,
   matches |-> <<>>, gen |-> 0, selected |-> NoLoc, outcome |-> "",
   writes |-> <<>>, sent |-> <<>>, message |-> NoMessage]

PendingOf(role) == IF role = "home" THEN pendingHome ELSE pendingWork

Free(p) == procs[p].pc \in {"idle", "done"}
\* An update is taken by the lowest slot never used, or else by the lowest
\* slot whose handler has returned.
FirstFree(p) ==
  IF \E q \in Procs : procs[q].pc = "idle"
  THEN procs[p].pc = "idle" /\ \A q \in Procs : q < p => procs[q].pc # "idle"
  ELSE procs[p].pc = "done" /\ \A q \in Procs : q < p => procs[q].pc # "done"

Init ==
  /\ pendingHome = EmptyMap
  /\ pendingWork = EmptyMap
  /\ mu = [w |-> 0, r |-> {}]
  /\ prefs = EmptyMap
  /\ procs = [p \in Procs |-> Idle]
  /\ started = 0
  /\ issued = 0
  /\ call = NoCall
  /\ render = NoRender
  /\ tzLoaded = TRUE
  /\ match = NoMatch
  /\ storeMu = [w |-> 0, r |-> {}]
  /\ siteCache = <<>>

\* --------------------------------------------------- Handler.HandleMessage

HasPrefix(s, word) == s # <<>> /\ Head(s) = word
TrimPrefix(s, word) == IF HasPrefix(s, word) THEN Tail(s) ELSE s

\* A query is shown in messages as the text of its words.
QueryText(q) == IF q = <<>> THEN "" ELSE Head(q)

\* The message texts users send (in lower case, as HandleMessage makes them).
MessageTexts ==
  { << cmd >> \o rest :
      cmd \in {"/sethome", "/setwork"},
      rest \in { <<>>, <<" ">>, <<" ", "odenplan">> } }
  \cup { <<"to", " ", "work">>, <<"to", " ", "home">> }

\* Handler.homeSiteID and Handler.workSiteID, the configured defaults: a home
\* default is set, a work default is not.
homeSiteID == "9001"
workSiteID == ""

\* A fetch that knows the saved locations only, and no defaults.
handleTrip_NoDefaults(kind, userID) ==
  LET saved == GetPrefs(userID)
      origin == IF kind = "towork" THEN saved.HomeLocation ELSE saved.WorkLocation
      destination == IF kind = "towork" THEN saved.WorkLocation ELSE saved.HomeLocation
      base == [Idle EXCEPT !.kind = kind, !.userID = userID, !.origin = origin,
                           !.destination = destination]
  IN  IF origin = "" \/ destination = ""
      THEN [base EXCEPT !.pc = "done", !.outcome = "LocationsUnset",
                        !.sent = << TextMsg("Set your locations first", "") >>]
      ELSE [base EXCEPT !.pc = "trips", !.routeType = saved.RoutePriority]

\* handleToWork / handleToHome up to the trip search: the user's saved
\* locations, or the defaults.
handleTrip(kind, userID) ==
  LET saved == GetPrefs(userID)
      home == IF saved.HomeLocation = "" THEN homeSiteID ELSE saved.HomeLocation
      work == IF saved.WorkLocation = "" THEN workSiteID ELSE saved.WorkLocation
      origin == IF kind = "towork" THEN home ELSE work
      destination == IF kind = "towork" THEN work ELSE home
      base == [Idle EXCEPT !.kind = kind, !.userID = userID, !.origin = origin,
                           !.destination = destination]
  IN  IF origin = "" \/ destination = ""
      THEN [base EXCEPT !.pc = "done", !.outcome = "LocationsUnset",
                        !.sent = << TextMsg("Set your locations first", "") >>]
      ELSE [base EXCEPT !.pc = "trips", !.routeType = saved.RoutePriority]

Launch(p, rec) ==
  /\ procs' = [procs EXCEPT ![p] = rec]
  /\ started' = started + 1
  /\ UNCHANGED << issued, call, render, tzLoaded, match, storeMu, siteCache >>

\* handleSetHome / handleSetWork up to the stop-finder call: the usage hint
\* for an empty query.
handleSetLocation(role, userID, query) ==
  LET base == [Idle EXCEPT !.kind = "set" \o role, !.userID = userID,
                           !.role = role, !.query = QueryText(query)]
  IN  IF query = <<>>
      THEN [base EXCEPT !.pc = "done", !.outcome = "QueryInvalid",
                        !.sent = << TextMsg("Usage", role) >>]
      ELSE [base EXCEPT !.pc = "search"]

\* handleHelp: the list of commands.
handleHelp(userID) ==
  [Idle EXCEPT !.kind = "help", !.pc = "done", !.userID = userID, !.outcome = "Help",
               !.sent = << TextMsg("Available commands", "") >>]

\* handlePrefs up to the label lookups: the saved locations, or the
\* defaults, and the saved priority.
handlePrefs(userID) ==
  LET saved == GetPrefs(userID)
  IN  [Idle EXCEPT !.kind = "prefs", !.pc = "labels", !.userID = userID,
                   !.origin = IF saved.HomeLocation = "" THEN homeSiteID
                              ELSE saved.HomeLocation,
                   !.destination = IF saved.WorkLocation = "" THEN workSiteID
                                   ELSE saved.WorkLocation,
                   !.routeType = saved.RoutePriority]

\* handleSetPriority: a prompt with the three priority buttons.
PriorityButtons(userID) ==
  << [label |-> << "Fastest", "" >>, data |-> PriorityData(userID, "leasttime")],
     [label |-> << "Least transfers", "" >>,
      data |-> PriorityData(userID, "leastinterchange")],
     [label |-> << "Least walking", "" >>, data |-> PriorityData(userID, "leastwalking")] >>
handleSetPriority(userID) ==
  [Idle EXCEPT !.kind = "setpriority", !.pc = "done", !.userID = userID,
               !.outcome = "PriorityPrompt",
               !.sent = << [kind |-> "prompt",
                            text |-> << "Choose your route priority", "" >>,
                            buttons |-> PriorityButtons(userID)] >>]

HandleMessage(p, userID, msgText) ==
  \* text := strings.ToLower(strings.TrimSpace(msg.Text))
  LET text == ToLower(TrimSpace(msgText))
      rec == IF text = <<"to", " ", "work">> THEN handleTrip("towork", userID)
             ELSE IF text = <<"to", " ", "home">> THEN handleTrip("tohome", userID)
             ELSE IF text = <<"/help">> THEN handleHelp(userID)
             ELSE IF text = <<"/prefs">> THEN handlePrefs(userID)
             ELSE IF HasPrefix(text, "/sethome")
             THEN handleSetLocation("home", userID,
                                    TrimSpace(TrimPrefix(text, "/sethome")))
             ELSE IF HasPrefix(text, "/setwork")
             THEN handleSetLocation("work", userID,
                                    TrimSpace(TrimPrefix(text, "/setwork")))
             ELSE IF text = <<"/setpriority">> THEN handleSetPriority(userID)
             ELSE [Idle EXCEPT !.kind = "unknown", !.pc = "done",
                               !.userID = userID, !.outcome = "Unknown",
                               !.sent = << TextMsg("Unknown command", "") >>]
  IN  /\ FirstFree(p)
      /\ started < MaxEvents
      /\ UNCHANGED << pendingHome, pendingWork, mu, prefs >>
      /\ Launch(p, [rec EXCEPT !.text = msgText])

\* locationLabel(location): the name the stop finder gives for a saved
\* reference, or the reference itself when there is none, the lookup fails
\* or finds nothing.
locationLabel(location, found) ==
  IF location = "" THEN ""
  ELSE IF found = <<>> \/ found[1].Name = "" THEN location
  ELSE found[1].Name

\* The priority line of handlePrefs: the label of a known value, a value
\* that is none of the three as it is stored.
prefsPriority(priority) ==
  IF priority = <<>> THEN "Not set (using default)"
  ELSE IF priority = <<"leastinterchange">> THEN "Least transfers"
  ELSE IF priority = <<"leasttime">> THEN "Fastest"
  ELSE IF priority = <<"leastwalking">> THEN "Least walking"
  ELSE priority[1]

\* The rest of handlePrefs: one stop-finder call per non-empty reference
\* (limit 1), then the message.
PrefsLabels(p, homeResp, workResp) ==
  LET me == procs[p]
      lookups == (IF me.origin = "" THEN 0 ELSE 1)
                   + (IF me.destination = "" THEN 0 ELSE 1)
  IN  /\ me.pc = "labels"
      /\ UNCHANGED << pendingHome, pendingWork, mu, prefs, started, issued, call, render, tzLoaded, match, storeMu, siteCache >>
      /\ procs' = [procs EXCEPT ![p] =
           [me EXCEPT !.pc = "done", !.outcome = "PrefsShown",
                      !.searches = @ + lookups,
                      !.formatted =
                         << locationLabel(me.origin, StopFinder(homeResp, 1)),
                            locationLabel(me.destination, StopFinder(workResp, 1)),
                            prefsPriority(me.routeType) >>,
                      !.sent = Append(me.sent, TextMsg("Your preferences", ""))]]

\* What the trip search may answer with.
TripAnswers == { << J1, J2 >> }

\* journeys, err := h.jpClient.Trips(ctx, origin, destination, 3, routeType):
\* its error, or the two label lookups (whose answers FormatJourneys does
\* not use), the rendering of the journeys and its message.
TripSearch(p, failed, journeys) ==
  LET me == procs[p]
  IN  /\ me.pc = "trips"
      /\ UNCHANGED << pendingHome, pendingWork, mu, prefs, started, issued, call, render, tzLoaded, match, storeMu, siteCache >>
      /\ procs' = [procs EXCEPT ![p] =
           IF failed
           THEN [me EXCEPT !.pc = "done", !.outcome = "FetchFailed",
                           !.trips = @ + 1,
                           !.sent = Append(me.sent, TextMsg("Error fetching trips", ""))]
           ELSE [me EXCEPT !.pc = "done", !.outcome = "Rendered",
                           !.trips = @ + 1,
                           !.searches = @ + 2,
                           !.formatted = FormatJourneys(me.origin, me.destination, journeys, 3),
                           !.sent = Append(me.sent, TextMsg("formatted", ""))]]

\* if len(locs) == 0
IsNoMatch_Never(locs) == FALSE
IsNoMatch(locs) == Len(locs) = 0

\* The stop finder's error: one message, and the handler returns.
SearchFailed_RetryOnce(me) ==
  IF me.searches = 0 THEN [me EXCEPT !.searches = @ + 1]
  ELSE [me EXCEPT !.pc = "done", !.searches = @ + 1, !.lookup = "failed",
                  !.outcome = "LookupFailed",
                  !.sent = Append(me.sent, TextMsg("Error searching locations", ""))]
SearchFailed(me) ==
  [me EXCEPT !.pc = "done", !.searches = @ + 1, !.lookup = "failed",
             !.outcome = "LookupFailed",
             !.sent = Append(me.sent, TextMsg("Error searching locations", ""))]

\* if len(locs) == 1
IsSingleMatch_Never(locs) == FALSE
IsSingleMatch(locs) == Len(locs) = 1

\* locs, err := h.jpClient.StopFinder(ctx, query, 5) and the branches on its
\* answer: the error, no location, one location, several.
SetLocationSearch(p, failed, respLocations) ==
  LET me == procs[p]
      locs == StopFinder(respLocations, StopFinderLimit)
      ok == [me EXCEPT !.searches = @ + 1, !.lookup = "ok", !.locs = locs]
  IN  /\ me.pc = "search"
      /\ UNCHANGED << pendingHome, pendingWork, mu, prefs, started, issued, call, render, tzLoaded, match, storeMu, siteCache >>
      /\ procs' = [procs EXCEPT ![p] =
           IF failed
           THEN SearchFailed(me)
           ELSE IF IsNoMatch(locs)
           THEN [ok EXCEPT !.pc = "done", !.outcome = "NoMatches",
                           !.sent = Append(me.sent, TextMsg("No locations found", me.query))]
           ELSE IF IsSingleMatch(locs)
           THEN [ok EXCEPT !.pc = "save", !.selected = locs[1]]
           ELSE [ok EXCEPT !.pc = "lock"]]

\* The single match: h.userStore.SetHome(userID, selected.ID), then the
\* confirmation, or the save error.
SetLocationSaveSingle(p, saveFailed) ==
  LET me == procs[p]
  IN  /\ me.pc = "save"
      /\ me.kind \in {"sethome", "setwork"}
      /\ prefs' = SetLocation(me.role, me.userID, me.selected.ID)
      /\ UNCHANGED << pendingHome, pendingWork, mu, started, issued, call, render, tzLoaded, match, storeMu, siteCache >>
      /\ procs' = [procs EXCEPT ![p] =
           IF saveFailed
           THEN [me EXCEPT !.pc = "done", !.outcome = "PersistenceFailed", !.saveErr = TRUE,
                           !.writes = Append(me.writes, << me.role, me.userID, me.selected.ID >>),
                           !.sent = Append(me.sent, TextMsg("Error saving preference", ""))]
           ELSE [me EXCEPT !.pc = "done", !.outcome = "Resolved", !.gen = issued,
                           !.writes = Append(me.writes, << me.role, me.userID, me.selected.ID >>),
                           !.sent = Append(me.sent,
                                           TextMsg(SetConfirmation(me.role), me.selected.Name))]]

\* h.mu.Lock()
AcquireLock(p) ==
  LET me == procs[p]
  IN  /\ me.pc = "lock"
      /\ mu.w = 0 /\ mu.r = {}
      /\ mu' = [mu EXCEPT !.w = p]
      /\ procs' = [procs EXCEPT ![p].pc = IF me.kind = "callback" THEN "delete" ELSE "put"]
      /\ UNCHANGED << pendingHome, pendingWork, prefs, started, issued, call, render, tzLoaded, match, storeMu, siteCache >>

\* h.mu.Unlock()
Unlock_Never(p) == mu
Unlock(p) == [mu EXCEPT !.w = 0]

\* h.pendingHome[userID] = locs; h.mu.Unlock()
PutPending_Append(role, userID, locs) ==
  MapPut(PendingOf(role), userID, MapGet(PendingOf(role), userID) \o locs)
PutPending(role, userID, locs) == MapPut(PendingOf(role), userID, locs)

SetLocationPut(p) ==
  LET me == procs[p]
  IN  /\ me.pc = "put"
      /\ mu.w = p
      /\ IF me.role = "home"
         THEN pendingHome' = PutPending("home", me.userID, me.locs) /\ UNCHANGED pendingWork
         ELSE pendingWork' = PutPending("work", me.userID, me.locs) /\ UNCHANGED pendingHome
      /\ mu' = Unlock(p)
      /\ issued' = issued + 1
      /\ procs' = [procs EXCEPT ![p].pc = "prompt"]
      /\ UNCHANGED << prefs, started, call, render, tzLoaded, match, storeMu, siteCache >>

\* The prompt: one button per location, then api.Send(msg).
SetLocationPrompt(p) ==
  LET me == procs[p]
  IN  /\ me.pc = "prompt"
      /\ procs' = [procs EXCEPT ![p] =
           [me EXCEPT !.pc = "done", !.outcome = "PromptIssued",
                      !.sent = Append(me.sent,
                                      PromptMsg(me.query,
                                                PromptButtons(me.role, me.userID, me.locs)))]]
      /\ UNCHANGED << pendingHome, pendingWork, mu, prefs, started, issued, call, render, tzLoaded, match, storeMu, siteCache >>

\* -------------------------------------------------- Handler.HandleCallback

\* The callback data of the clicks: every button a prompt can carry (also
\* positions no list has, and a negative one), the priority buttons, a
\* priority value no button carries, and data no prompt of this handler made.
Positions == {-1, 0, 1, 2}
CallbackData ==
  { ButtonData(role, u, i) : role \in Roles, u \in Users, i \in Positions }
  \cup { PriorityData(u, v) : u \in Users, v \in {"leasttime", "bogus"} }
  \cup { <<"homejp", "_", "1">>,
         <<"homejp", "_", "1", "_", "0", "_", "0">>,
         <<"homejp", "_", "x", "_", "0">>,
         <<"workjp", "_", "1", "_", "x">>,
         <<"home", "_", "1", "_", "0">> }

\* if action == "homejp" { ... } if action == "workjp" { ... }
IsLocationAction_Any(action) == TRUE
IsLocationAction(action) == action \in { <<"homejp">>, <<"workjp">> }

\* data -> (action, userID, third field), or what is wrong with it.
\* kind: "format" (not three parts), "userID" (not an integer), "priority",
\* "index" (the third part is not an integer), "location", "unknown".
Decode(data) ==
  LET parts == Split(data)
      user == Atoi(parts[2])
      index == Atoi(parts[3])
      base == [kind |-> "format", action |-> <<>>, userID |-> 0,
               selectionIndex |-> 0, value |-> <<>>]
  IN  IF Len(parts) # 3 THEN base
      ELSE IF ~user.ok THEN [base EXCEPT !.kind = "userID", !.action = parts[1]]
      ELSE IF parts[1] = <<"priority">>
      THEN [base EXCEPT !.kind = "priority", !.action = parts[1],
                        !.userID = user.val, !.value = parts[3]]
      ELSE IF ~index.ok
      THEN [base EXCEPT !.kind = "index", !.action = parts[1], !.userID = user.val]
      ELSE IF IsLocationAction(parts[1])
      THEN [base EXCEPT !.kind = "location", !.action = parts[1],
                        !.userID = user.val, !.selectionIndex = index.val]
      ELSE [base EXCEPT !.kind = "unknown", !.action = parts[1],
                        !.userID = user.val, !.selectionIndex = index.val]

RoleOfAction(action) == IF action = <<"homejp">> THEN "home" ELSE "work"

\* The decoding of the callback data: everything up to the first access to
\* the pending maps or the store.  Data that is not understood is logged and
\* the handler returns.
DecodeCallback(data, message) ==
  LET d == Decode(data)
      base == [Idle EXCEPT !.kind = "callback", !.data = data, !.action = d.action,
                           !.userID = d.userID, !.selectionIndex = d.selectionIndex,
                           !.message = message]
  IN  CASE d.kind = "priority" ->
             [base EXCEPT !.pc = "setpriority", !.role = "priority"]
        [] d.kind = "location" ->
             [base EXCEPT !.pc = "rlock", !.role = RoleOfAction(d.action)]
        [] OTHER ->
             [base EXCEPT !.pc = "done", !.outcome = "Ignored"]

\* A click of which only the callback data is known.
HandleCallback(p, data) ==
  /\ FirstFree(p)
  /\ started < MaxEvents
  /\ UNCHANGED << pendingHome, pendingWork, mu, prefs >>
  /\ Launch(p, DecodeCallback(data, NoMessage))

\* callback.Message: a click on button i of a prompt that handler q sent and
\* that is still on the user's screen, whether or not a later query has
\* sent another prompt since.
ClickOnPrompt(p, q, i) ==
  /\ FirstFree(p)
  /\ started < MaxEvents
  /\ procs[q].sent # <<>>
  /\ LET message == procs[q].sent[Len(procs[q].sent)]
     IN  /\ message.kind = "prompt"
         /\ i \in 1..Len(message.buttons)
         /\ Launch(p, DecodeCallback(message.buttons[i].data, message))
  /\ UNCHANGED << pendingHome, pendingWork, mu, prefs >>

PriorityLabel(value) ==
  CASE value = <<"leasttime">> -> "Fastest"
    [] value = <<"leastinterchange">> -> "Least transfers"
    [] value = <<"leastwalking">> -> "Least walking"
    [] OTHER -> ""

\* h.userStore.SetPriority(userID, priorityValue), then the edit of the
\* prompt, or the save error.
CallbackSetPriority(p, saveFailed) ==
  LET me == procs[p]
      value == Decode(me.data).value
  IN  /\ me.pc = "setpriority"
      /\ prefs' = SetPriority(me.userID, value)
      /\ UNCHANGED << pendingHome, pendingWork, mu, started, issued, call, render, tzLoaded, match, storeMu, siteCache >>
      /\ procs' = [procs EXCEPT ![p] =
           IF saveFailed
           THEN [me EXCEPT !.pc = "done", !.outcome = "PersistenceFailed", !.saveErr = TRUE,
                           !.writes = Append(me.writes, << "priority", me.userID, value >>),
                           !.sent = Append(me.sent, TextMsg("Error saving preference", ""))]
           ELSE [me EXCEPT !.pc = "done", !.outcome = "PrioritySet",
                           !.writes = Append(me.writes, << "priority", me.userID, value >>),
                           !.sent = Append(me.sent,
                                           EditMsg("Route priority set to", PriorityLabel(value)))]]

\* h.mu.RLock()
AcquireRLock(p) ==
  /\ procs[p].pc = "rlock"
  /\ mu.w = 0
  /\ mu' = [mu EXCEPT !.r = @ \cup {p}]
  /\ procs' = [procs EXCEPT ![p].pc = "read"]
  /\ UNCHANGED << pendingHome, pendingWork, prefs, started, issued, call, render, tzLoaded, match, storeMu, siteCache >>

\* selectionIndex < 0 || selectionIndex >= len(matches), negated
InBounds(selectionIndex, matches) ==
  ~(selectionIndex < 0 \/ selectionIndex >= Len(matches))

\* selected := matches[selectionIndex]
Selected_First(matches, selectionIndex) == matches[1]
Selected(matches, selectionIndex) == matches[selectionIndex + 1]

\* A read that also removes the entry (take-and-clear), which the handler
\* does not do.
CallbackRead_TakeAndClear(p) ==
  LET me == procs[p]
      matches == MapGet(PendingOf(me.role), me.userID)
  IN  /\ me.pc = "read"
      /\ p \in mu.r
      /\ mu' = [mu EXCEPT !.r = @ \ {p}]
      /\ IF me.role = "home"
         THEN pendingHome' = MapDelete(pendingHome, me.userID) /\ UNCHANGED pendingWork
         ELSE pendingWork' = MapDelete(pendingWork, me.userID) /\ UNCHANGED pendingHome
      /\ UNCHANGED << prefs, started, issued, call, render, tzLoaded, match, storeMu, siteCache >>
      /\ procs' = [procs EXCEPT ![p] =
           [me EXCEPT !.pc = "check", !.matches = matches, !.gen = issued]]

\* h.mu.RUnlock()
RUnlock_Late(p) == mu
RUnlock(p) == [mu EXCEPT !.r = @ \ {p}]

\* matches := h.pendingHome[userID]; h.mu.RUnlock()
CallbackRead(p) ==
  LET me == procs[p]
      matches == MapGet(PendingOf(me.role), me.userID)
  IN  /\ me.pc = "read"
      /\ p \in mu.r
      /\ mu' = RUnlock(p)
      /\ UNCHANGED << pendingHome, pendingWork, prefs, started, issued, call, render, tzLoaded, match, storeMu, siteCache >>
      /\ procs' = [procs EXCEPT ![p] =
           [me EXCEPT !.pc = "check", !.matches = matches, !.gen = issued]]

\* The bounds check on the list read, with the lock released: the message
\* for a position outside it, or the selection.
CallbackCheck(p) ==
  LET me == procs[p]
  IN  /\ me.pc = "check"
      /\ UNCHANGED << pendingHome, pendingWork, mu, prefs, started, issued, call, render, tzLoaded, match, storeMu, siteCache >>
      /\ procs' = [procs EXCEPT ![p] =
           IF InBounds(me.selectionIndex, me.matches)
           THEN [me EXCEPT !.pc = "save",
                           !.selected = Selected(me.matches, me.selectionIndex)]
           ELSE [me EXCEPT !.pc = "done", !.outcome = "Invalid",
                           !.sent = Append(me.sent,
                                           TextMsg("Location not found in pending selections", ""))]]

\* A save that drops the pending entry before it writes, so that a failed
\* write leaves no entry, which the handler does not do.
CallbackSave_ClearsFirst(p, saveFailed) ==
  LET me == procs[p]
  IN  /\ me.pc = "save"
      /\ me.kind = "callback"
      /\ prefs' = SetLocation(me.role, me.userID, me.selected.ID)
      /\ IF me.role = "home"
         THEN pendingHome' = MapDelete(pendingHome, me.userID) /\ UNCHANGED pendingWork
         ELSE pendingWork' = MapDelete(pendingWork, me.userID) /\ UNCHANGED pendingHome
      /\ UNCHANGED << mu, started, issued, call, render, tzLoaded, match, storeMu, siteCache >>
      /\ procs' = [procs EXCEPT ![p] =
           IF saveFailed
           THEN [me EXCEPT !.pc = "done", !.outcome = "PersistenceFailed", !.saveErr = TRUE,
                           !.writes = Append(me.writes, << me.role, me.userID, me.selected.ID >>),
                           !.sent = Append(me.sent, TextMsg("Error saving preference", ""))]
           ELSE [me EXCEPT !.pc = "lock",
                           !.writes = Append(me.writes, << me.role, me.userID, me.selected.ID >>)]]

\* A save that goes on to the confirmation whatever the store returns, which
\* the handler does not do.
CallbackSave_IgnoresError(p, saveFailed) ==
  LET me == procs[p]
  IN  /\ me.pc = "save"
      /\ me.kind = "callback"
      /\ prefs' = SetLocation(me.role, me.userID, me.selected.ID)
      /\ UNCHANGED << pendingHome, pendingWork, mu, started, issued, call, render, tzLoaded, match, storeMu, siteCache >>
      /\ procs' = [procs EXCEPT ![p] =
           [me EXCEPT !.pc = "lock", !.saveErr = saveFailed,
                      !.writes = Append(me.writes, << me.role, me.userID, me.selected.ID >>)]]

\* h.userStore.SetHome(userID, selected.ID); on its error the save-error
\* message and return.
CallbackSave(p, saveFailed) ==
  LET me == procs[p]
  IN  /\ me.pc = "save"
      /\ me.kind = "callback"
      /\ prefs' = SetLocation(me.role, me.userID, me.selected.ID)
      /\ UNCHANGED << pendingHome, pendingWork, mu, started, issued, call, render, tzLoaded, match, storeMu, siteCache >>
      /\ procs' = [procs EXCEPT ![p] =
           IF saveFailed
           THEN [me EXCEPT !.pc = "done", !.outcome = "PersistenceFailed", !.saveErr = TRUE,
                           !.writes = Append(me.writes, << me.role, me.userID, me.selected.ID >>),
                           !.sent = Append(me.sent, TextMsg("Error saving preference", ""))]
           ELSE [me EXCEPT !.pc = "lock",
                           !.writes = Append(me.writes, << me.role, me.userID, me.selected.ID >>)]]

\* delete(h.pendingHome, userID); h.mu.Unlock()
DeletePending_Keep(role, userID) == PendingOf(role)
DeletePending_All(role, userID) == EmptyMap
DeletePending(role, userID) == MapDelete(PendingOf(role), userID)

CallbackDelete(p) ==
  LET me == procs[p]
  IN  /\ me.pc = "delete"
      /\ mu.w = p
      /\ IF me.role = "home"
         THEN pendingHome' = DeletePending("home", me.userID) /\ UNCHANGED pendingWork
         ELSE pendingWork' = DeletePending("work", me.userID) /\ UNCHANGED pendingHome
      /\ mu' = Unlock(p)
      /\ procs' = [procs EXCEPT ![p].pc = "edit"]
      /\ UNCHANGED << prefs, started, issued, call, render, tzLoaded, match, storeMu, siteCache >>

\* The prompt is edited to the confirmation naming the chosen location.
CallbackEdit(p) ==
  LET me == procs[p]
  IN  /\ me.pc = "edit"
      /\ procs' = [procs EXCEPT ![p] =
           [me EXCEPT !.pc = "done", !.outcome = "Resolved",
                      !.sent = Append(me.sent,
                                      EditMsg(SetConfirmation(me.role), me.selected.Name))]]
      /\ UNCHANGED << pendingHome, pendingWork, mu, prefs, started, issued, call, render, tzLoaded, match, storeMu, siteCache >>

\* ------------------------------------------------------------ specification

Next ==
  \/ \E p \in Procs, u \in Users, t \in MessageTexts : HandleMessage(p, u, t)
  \/ \E p \in Procs, f \in BOOLEAN, js \in TripAnswers : TripSearch(p, f, js)
  \/ \E p \in Procs, f \in BOOLEAN, r \in BackendResponses : SetLocationSearch(p, f, r)
  \/ \E p \in Procs, f \in BOOLEAN : SetLocationSaveSingle(p, f)
  \/ \E p \in Procs : AcquireLock(p)
  \/ \E p \in Procs : SetLocationPut(p)
  \/ \E p \in Procs : SetLocationPrompt(p)
  \/ \E p \in Procs, d \in CallbackData : HandleCallback(p, d)
  \/ \E p \in Procs, f \in BOOLEAN : CallbackSetPriority(p, f)
  \/ \E p \in Procs : AcquireRLock(p)
  \/ \E p \in Procs : CallbackRead(p)
  \/ \E p \in Procs : CallbackCheck(p)
  \/ \E p \in Procs, f \in BOOLEAN : CallbackSave(p, f)
  \/ \E p \in Procs : CallbackDelete(p)
  \/ \E p \in Procs : CallbackEdit(p)

\* The Handler under concurrent callers: updates are handled as they come,
\* up to MaxProcs at a time.
Spec == Init /\ [][Next]_vars

\* The Handler as main's update loop drives it: one update at a time, the
\* next one dispatched when the handler of the last has returned.
AllReturned == \A q \in Procs : Free(q)
MainHandleMessage(p, userID, msgText) == AllReturned /\ HandleMessage(p, userID, msgText)
MainHandleCallback(p, data) == AllReturned /\ HandleCallback(p, data)

SeqNext ==
  \/ \E p \in Procs, u \in Users, t \in MessageTexts : MainHandleMessage(p, u, t)
  \/ \E p \in Procs, f \in BOOLEAN, js \in TripAnswers : TripSearch(p, f, js)
  \/ \E p \in Procs, f \in BOOLEAN, r \in BackendResponses : SetLocationSearch(p, f, r)
  \/ \E p \in Procs, f \in BOOLEAN : SetLocationSaveSingle(p, f)
  \/ \E p \in Procs : AcquireLock(p)
  \/ \E p \in Procs : SetLocationPut(p)
  \/ \E p \in Procs : SetLocationPrompt(p)
  \/ \E p \in Procs, d \in CallbackData : MainHandleCallback(p, d)
  \/ \E p \in Procs, f \in BOOLEAN : CallbackSetPriority(p, f)
  \/ \E p \in Procs : AcquireRLock(p)
  \/ \E p \in Procs : CallbackRead(p)
  \/ \E p \in Procs : CallbackCheck(p)
  \/ \E p \in Procs, f \in BOOLEAN : CallbackSave(p, f)
  \/ \E p \in Procs : CallbackDelete(p)
  \/ \E p \in Procs : CallbackEdit(p)

SeqSpec == Init /\ [][SeqNext]_vars

\* The Handler as main's update loop drives it, with the clicks users can
\* make: /sethome and /setwork queries, and clicks on the buttons of the
\* prompts the handlers have sent.
ClickTexts == { <<"/sethome", " ", "odenplan">>, <<"/setwork", " ", "odenplan">> }

MainClickOnPrompt(p, q, i) == AllReturned /\ ClickOnPrompt(p, q, i)

ClickNext ==
  \/ \E p \in Procs, u \in Users, t \in ClickTexts : MainHandleMessage(p, u, t)
  \/ \E p \in Procs, f \in BOOLEAN, r \in BackendResponses : SetLocationSearch(p, f, r)
  \/ \E p \in Procs, f \in BOOLEAN : SetLocationSaveSingle(p, f)
  \/ \E p \in Procs : AcquireLock(p)
  \/ \E p \in Procs : SetLocationPut(p)
  \/ \E p \in Procs : SetLocationPrompt(p)
  \/ \E p \in Procs, q \in Procs, i \in 1..StopFinderLimit : MainClickOnPrompt(p, q, i)
  \/ \E p \in Procs : AcquireRLock(p)
  \/ \E p \in Procs : CallbackRead(p)
  \/ \E p \in Procs : CallbackCheck(p)
  \/ \E p \in Procs, f \in BOOLEAN : CallbackSave(p, f)
  \/ \E p \in Procs : CallbackDelete(p)
  \/ \E p \in Procs : CallbackEdit(p)

ClickSpec == Init /\ [][ClickNext]_vars

\* The updates of the fair specification: user 1's /setwork query, "to
\* work", clicks on work buttons 0 and 2 and on a priority button.
FairTexts == { <<"/setwork", " ", "odenplan">>, <<"to", " ", "work">> }
FairData ==
  { ButtonData("work", 1, 0), ButtonData("work", 1, 2), PriorityData(1, "leasttime") }
\* and the stop finder's answers to them: none, one or two locations.
FairResponses == { <<>>, << L1 >>, << L1, L2 >> }
\* and the trip planner's answers: no journey, or one journey on foot.
FairTrips == { <<>>, << J1 >> }

\* A step of handler p after its dispatch: a collaborator's answer, a lock
\* operation, a map access or a send.
ProcStep(p) ==
  \/ \E f \in BOOLEAN, js \in FairTrips : TripSearch(p, f, js)
  \/ \E f \in BOOLEAN, r \in FairResponses : SetLocationSearch(p, f, r)
  \/ \E f \in BOOLEAN : SetLocationSaveSingle(p, f)
  \/ AcquireLock(p)
  \/ SetLocationPut(p)
  \/ SetLocationPrompt(p)
  \/ \E f \in BOOLEAN : CallbackSetPriority(p, f)
  \/ AcquireRLock(p)
  \/ CallbackRead(p)
  \/ CallbackCheck(p)
  \/ \E f \in BOOLEAN : CallbackSave(p, f)
  \/ CallbackDelete(p)
  \/ CallbackEdit(p)

FairNext ==
  \/ \E p \in Procs, t \in FairTexts : HandleMessage(p, 1, t)
  \/ \E p \in Procs, f \in BOOLEAN, js \in FairTrips : TripSearch(p, f, js)
  \/ \E p \in Procs, f \in BOOLEAN, r \in FairResponses : SetLocationSearch(p, f, r)
  \/ \E p \in Procs, f \in BOOLEAN : SetLocationSaveSingle(p, f)
  \/ \E p \in Procs : AcquireLock(p)
  \/ \E p \in Procs : SetLocationPut(p)
  \/ \E p \in Procs : SetLocationPrompt(p)
  \/ \E p \in Procs, d \in FairData : HandleCallback(p, d)
  \/ \E p \in Procs, f \in BOOLEAN : CallbackSetPriority(p, f)
  \/ \E p \in Procs : AcquireRLock(p)
  \/ \E p \in Procs : CallbackRead(p)
  \/ \E p \in Procs : CallbackCheck(p)
  \/ \E p \in Procs, f \in BOOLEAN : CallbackSave(p, f)
  \/ \E p \in Procs : CallbackDelete(p)
  \/ \E p \in Procs : CallbackEdit(p)

\* The Handler under concurrent callers with every kind of update: the two
\* fetches, /help, /prefs, /setpriority, the two queries, and clicks on
\* location and priority buttons of both users.
FrameTexts ==
  { <<"to", " ", "work">>, <<"to", " ", "home">>, <<"/help">>, <<"/prefs">>,
    <<"/setpriority">>, <<"/sethome", " ", "odenplan">>,
    <<"/setwork", " ", "odenplan">>, <<"hello">> }
FrameData ==
  { ButtonData(role, u, 0) : role \in Roles, u \in Users }
  \cup { PriorityData(u, "leastwalking") : u \in Users }

FrameNext ==
  \/ \E p \in Procs, u \in Users, t \in FrameTexts : HandleMessage(p, u, t)
  \/ \E p \in Procs, f \in BOOLEAN, js \in FairTrips : TripSearch(p, f, js)
  \/ \E p \in Procs, h \in FairResponses, w \in FairResponses : PrefsLabels(p, h, w)
  \/ \E p \in Procs, f \in BOOLEAN, r \in FairResponses : SetLocationSearch(p, f, r)
  \/ \E p \in Procs, f \in BOOLEAN : SetLocationSaveSingle(p, f)
  \/ \E p \in Procs : AcquireLock(p)
  \/ \E p \in Procs : SetLocationPut(p)
  \/ \E p \in Procs : SetLocationPrompt(p)
  \/ \E p \in Procs, d \in FrameData : HandleCallback(p, d)
  \/ \E p \in Procs, f \in BOOLEAN : CallbackSetPriority(p, f)
  \/ \E p \in Procs : AcquireRLock(p)
  \/ \E p \in Procs : CallbackRead(p)
  \/ \E p \in Procs : CallbackCheck(p)
  \/ \E p \in Procs, f \in BOOLEAN : CallbackSave(p, f)
  \/ \E p \in Procs : CallbackDelete(p)
  \/ \E p \in Procs : CallbackEdit(p)

FrameSpec == Init /\ [][FrameNext]_vars

\* The Handler under concurrent callers when every collaborator call returns
\* and every goroutine that can run does run: a handler that can take a step
\* takes it.
FairSpec == Init /\ [][FairNext]_vars /\ \A p \in Procs : WF_vars(ProcStep(p))

\* ------------------------------------------------- the store, driven alone

handlerVars == << pendingHome, pendingWork, mu, procs, started, issued >>

\* The location references and the priorities callers hand to the store.
LocationRefs == {"", L1.ID, L2.ID}
Priorities == { <<"leasttime">>, <<"leastinterchange">>, <<"leastwalking">> }

\* s.SetHome(userID, location): the record is written, then saveToFile
\* gives the call's error.
StoreSetHome(userID, location, failed) ==
  /\ prefs' = SetHome(userID, location)
  /\ call' = [op |-> "SetHome", userID |-> userID, arg |-> location,
              failed |-> failed, ret |-> <<>>]
  /\ UNCHANGED << handlerVars, render, tzLoaded, match, storeMu, siteCache >>

StoreSetWork(userID, location, failed) ==
  /\ prefs' = SetWork(userID, location)
  /\ call' = [op |-> "SetWork", userID |-> userID, arg |-> location,
              failed |-> failed, ret |-> <<>>]
  /\ UNCHANGED << handlerVars, render, tzLoaded, match, storeMu, siteCache >>

StoreSetPriority(userID, priority, failed) ==
  /\ prefs' = SetPriority(userID, priority)
  /\ call' = [op |-> "SetPriority", userID |-> userID, arg |-> priority[1],
              failed |-> failed, ret |-> <<>>]
  /\ UNCHANGED << handlerVars, render, tzLoaded, match, storeMu, siteCache >>

\* s.GetPrefs(userID): a copy of the record, or the zero value.
StoreGetPrefs(userID) ==
  /\ call' = [op |-> "GetPrefs", userID |-> userID, arg |-> "",
              failed |-> FALSE, ret |-> << GetPrefs(userID) >>]
  /\ UNCHANGED << handlerVars, prefs, render, tzLoaded, match, storeMu, siteCache >>

StoreNext ==
  \/ \E u \in Users, l \in LocationRefs, f \in BOOLEAN : StoreSetHome(u, l, f)
  \/ \E u \in Users, l \in LocationRefs, f \in BOOLEAN : StoreSetWork(u, l, f)
  \/ \E u \in Users, v \in Priorities, f \in BOOLEAN : StoreSetPriority(u, v, f)
  \/ \E u \in Users : StoreGetPrefs(u)

StoreSpec == Init /\ [][StoreNext]_vars

\* ------------------------------------- the store under concurrent callers

\* MaxCallers goroutines call the store at the same time, one call each;
\* call[t] is caller t's call: what it asked for, where it is, the exists
\* flag it read, and what it returned.
MaxCallers == 3
Callers == 1..MaxCallers
Invoke(op, userID, arg) ==
  [op |-> op, userID |-> userID, arg |-> arg, failed |-> FALSE, ret |-> <<>>,
   pc |-> "lock", exists |-> FALSE]
Invocations ==
  { Invoke(op, u, l) : op \in {"SetHome", "SetWork"}, u \in Users, l \in {L1.ID, L2.ID} }
  \cup { Invoke("SetPriority", u, <<"leastwalking">>) : u \in Users }
  \cup { Invoke("GetPrefs", u, "") : u \in Users }

ConcInit ==
  /\ pendingHome = EmptyMap
  /\ pendingWork = EmptyMap
  /\ mu = [w |-> 0, r |-> {}]
  /\ prefs = EmptyMap
  /\ procs = [p \in Procs |-> Idle]
  /\ started = 0
  /\ issued = 0
  /\ render = NoRender
  /\ tzLoaded = TRUE
  /\ match = NoMatch
  /\ storeMu = [w |-> 0, r |-> {}]
  /\ siteCache = <<>>
  /\ call \in [Callers -> Invocations]

\* A lock that never makes a caller wait.
StoreLock_NoExclusion(t) == TRUE
\* s.mu.Lock() of the three setters; s.mu.RLock() of GetPrefs.
StoreLock(t) ==
  IF call[t].op = "GetPrefs" THEN storeMu.w = 0
  ELSE storeMu.w = 0 /\ storeMu.r = {}

ConcLock(t) ==
  /\ call[t].pc = "lock"
  /\ StoreLock(t)
  /\ storeMu' = IF call[t].op = "GetPrefs"
                THEN [storeMu EXCEPT !.r = @ \cup {t}]
                ELSE [storeMu EXCEPT !.w = t]
  /\ call' = [call EXCEPT ![t].pc = IF call[t].op = "GetPrefs" THEN "read" ELSE "check"]
  /\ UNCHANGED << handlerVars, prefs, render, tzLoaded, match, siteCache >>

\* _, exists := s.prefs[userID]
ConcCheck(t) ==
  /\ call[t].pc = "check"
  /\ call' = [call EXCEPT ![t].pc = "create",
                          ![t].exists = call[t].userID \in DOMAIN prefs]
  /\ UNCHANGED << handlerVars, prefs, render, tzLoaded, match, storeMu, siteCache >>

\* if !exists { s.prefs[userID] = &UserPreferences{} }
ConcCreate(t) ==
  /\ call[t].pc = "create"
  /\ prefs' = IF call[t].exists THEN prefs ELSE MapPut(prefs, call[t].userID, NoPrefs)
  /\ call' = [call EXCEPT ![t].pc = "assign"]
  /\ UNCHANGED << handlerVars, render, tzLoaded, match, storeMu, siteCache >>

\* s.prefs[userID].HomeLocation = location, and its two siblings
ConcAssign(t) ==
  /\ call[t].pc = "assign"
  /\ prefs' = CASE call[t].op = "SetHome" ->
                     [prefs EXCEPT ![call[t].userID].HomeLocation = call[t].arg]
                [] call[t].op = "SetWork" ->
                     [prefs EXCEPT ![call[t].userID].WorkLocation = call[t].arg]
                [] call[t].op = "SetPriority" ->
                     [prefs EXCEPT ![call[t].userID].RoutePriority = call[t].arg]
  /\ call' = [call EXCEPT ![t].pc = "save"]
  /\ UNCHANGED << handlerVars, render, tzLoaded, match, storeMu, siteCache >>

\* return s.saveToFile(), and the deferred s.mu.Unlock()
ConcReturn(t, failed) ==
  /\ call[t].pc = "save"
  /\ storeMu' = [storeMu EXCEPT !.w = IF @ = t THEN 0 ELSE @]
  /\ call' = [call EXCEPT ![t].pc = "done", ![t].failed = failed]
  /\ UNCHANGED << handlerVars, prefs, render, tzLoaded, match, siteCache >>

\* return *prefs (a copy), or UserPreferences{}; the deferred s.mu.RUnlock()
ConcRead(t) ==
  /\ call[t].pc = "read"
  /\ storeMu' = [storeMu EXCEPT !.r = @ \ {t}]
  /\ call' = [call EXCEPT ![t].pc = "done", ![t].ret = << GetPrefs(call[t].userID) >>]
  /\ UNCHANGED << handlerVars, prefs, render, tzLoaded, match, siteCache >>

ConcNext ==
  \/ \E t \in Callers : ConcLock(t)
  \/ \E t \in Callers : ConcCheck(t)
  \/ \E t \in Callers : ConcCreate(t)
  \/ \E t \in Callers : ConcAssign(t)
  \/ \E t \in Callers, f \in BOOLEAN : ConcReturn(t, f)
  \/ \E t \in Callers : ConcRead(t)

ConcSpec == ConcInit /\ [][ConcNext]_vars

\* --------------------------------------------- the formatter, driven alone

RECURSIVE SeqsUpTo(_, _)
SeqsUpTo(S, n) ==
  IF n = 0 THEN { <<>> }
  ELSE SeqsUpTo(S, n - 1)
         \cup { Append(q, x) : q \in { r \in SeqsUpTo(S, n - 1) : Len(r) = n - 1 }, x \in S }

JourneyLists == SeqsUpTo(JourneyPool, MaxJourneys)
Counts == -1..MaxCount

\* The journeys and the count of one call, not yet rendered, in a process
\* whose init did or did not find the zone.
RenderInit(lists, counts) ==
  /\ pendingHome = EmptyMap
  /\ pendingWork = EmptyMap
  /\ mu = [w |-> 0, r |-> {}]
  /\ prefs = EmptyMap
  /\ procs = [p \in Procs |-> Idle]
  /\ started = 0
  /\ issued = 0
  /\ call = NoCall
  /\ match = NoMatch
  /\ storeMu = [w |-> 0, r |-> {}]
  /\ siteCache = <<>>
  /\ tzLoaded \in BOOLEAN
  /\ render \in { [NoRender EXCEPT !.journeys = js, !.count = c] :
                    js \in lists, c \in counts }

FormatInit == RenderInit(JourneyLists, Counts)

\* text := journeyplanner.FormatJourneys(origin, destination, journeys, count)
RenderJourneys ==
  /\ ~render.done
  /\ render' = [render EXCEPT
                  !.done = TRUE,
                  !.out = FormatJourneys("Home", "Work", render.journeys, render.count)]
  /\ UNCHANGED << handlerVars, prefs, call, tzLoaded, match, storeMu, siteCache >>

FormatNext == RenderJourneys

FormatSpec == FormatInit /\ [][FormatNext]_vars

\* Journeys of one walking leg, for the rounding of durations: the seconds
\* around whole minutes.
Durations == {0, 1, 59, 60, 61, 179, 180, 181}
WalkOf(seconds) == [WalkLeg EXCEPT !.Duration = seconds]
DurationJourneys ==
  { << Journey("a", d, rt, << WalkOf(w) >>) >> : d, rt, w \in Durations }

DurationSpec == RenderInit(DurationJourneys, {1}) /\ [][FormatNext]_vars

\* Journeys of up to three walking legs, for the arrival time: leg k may
\* carry an estimated arrival at 1k:00Z and a planned arrival at 1k:30Z.
MaxLegs == 3
ArrivalLeg(k, estimated, planned) ==
  [WalkLeg EXCEPT
     !.Destination.ArrivalTimeEstimated =
        IF estimated THEN Stamp("2024-01-15", "1", Digits[k + 1], "0", "0") ELSE <<>>,
     !.Destination.ArrivalTimePlanned =
        IF planned THEN Stamp("2024-01-15", "1", Digits[k + 1], "3", "0") ELSE <<>>]
ArrivalLegs(n) ==
  { [k \in 1..n |-> ArrivalLeg(k, f[k][1], f[k][2])] :
      f \in [1..n -> BOOLEAN \X BOOLEAN] }
ArrivalJourneys ==
  { << Journey("a", 600, 0, legs) >> :
      legs \in UNION { ArrivalLegs(n) : n \in 0..MaxLegs } }

ArrivalSpec == RenderInit(ArrivalJourneys, {1}) /\ [][FormatNext]_vars

\* Journeys of one bus leg, for the departure line and the pass-through of
\* raw text.  Each time is its text with what it stands for: whether it
\* parses, and its UTC hour, minute and seconds from 2024-01-15T00:00:00Z.
Time(text, ok, hour, minute, sec) ==
  [text |-> text, ok |-> ok, hour |-> hour, minute |-> minute, sec |-> sec]
Absent == Time(<<>>, FALSE, 0, 0, 0)
TimePool ==
  { Absent,
    Time(<<"2024-01-15", "T", "0", "8", ":", "0", "0", ":", "0", "0", "Z">>,
         TRUE, 8, 0, 28800),
    Time(<<"2024-01-15", "T", "0", "9", ":", "0", "0", ":", "0", "0",
           "+", "0", "1", ":", "0", "0">>, TRUE, 8, 0, 28800),
    Time(<<"2024-01-15", "T", "0", "8", ":", "0", "0", ":", "5", "0", "Z">>,
         TRUE, 8, 0, 28850),
    Time(<<"2024-01-15", "T", "0", "8", ":", "0", "1", ":", "1", "0", "Z">>,
         TRUE, 8, 1, 28870),
    Time(<<"2024-01-15", "T", "0", "8", ":", "0", "3", ":", "0", "0", "Z">>,
         TRUE, 8, 3, 28980),
    Time(<<"2024-01-15", "T", "0", "8", ":", "0", "3", ":", "0", "0",
           ".", "5", "Z">>, TRUE, 8, 3, 28980),
    Time(<<"2024-01-15", "T", "0", "7", ":", "5", "8", ":", "0", "0", "Z">>,
         TRUE, 7, 58, 28680),
    Time(<<"2024-01-16", "T", "0", "8", ":", "0", "0", ":", "0", "0", "Z">>,
         TRUE, 8, 0, 115200),
    Time(<<"soon">>, FALSE, 0, 0, 0) }
Arrivals ==
  { <<>>, <<"soon">>,
    <<"2024-01-15", "T", "0", "8", ":", "0", "3", ":", "0", "0", "Z">> }
DepartLeg(planned, estimated, arrival) ==
  [BusLeg EXCEPT !.Origin.DepartureTimePlanned = planned,
                 !.Origin.DepartureTimeEstimated = estimated,
                 !.Destination.ArrivalTimePlanned = arrival,
                 !.Destination.ArrivalTimeEstimated = <<>>]
DepartJourneys ==
  { << Journey("a", 600, 0, << DepartLeg(p.text, e.text, a) >>) >> :
      p \in TimePool, e \in TimePool, a \in Arrivals }

DepartSpec == RenderInit(DepartJourneys, {1}) /\ [][FormatNext]_vars

\* Journeys of one leg, for the classification of its mode.  Each product
\* name is its letters with what it stands for: the mode its letters spell
\* when letter case is ignored, the mode they spell once the white space
\* around them is dropped as well, and the name in title case.
Product(letters, exact, trimmed, title) ==
  [letters |-> letters, exact |-> exact, trimmed |-> trimmed, title |-> title]
ProductPool ==
  { Product(<<>>, "walk", "walk", <<>>),
    Product(<<" ">>, "other", "walk", <<>>),
    Product(<<"f", "o", "o", "t", "p", "a", "t", "h">>, "walk", "walk", <<>>),
    Product(<<"F", "o", "o", "t", "p", "a", "t", "h">>, "walk", "walk", <<>>),
    Product(<<"b", "u", "s">>, "bus", "bus", <<>>),
    Product(<<"B", "u", "s">>, "bus", "bus", <<>>),
    Product(<<"B", "U", "S">>, "bus", "bus", <<>>),
    Product(<<" ", "b", "u", "s", " ">>, "other", "bus", <<>>),
    Product(<<"m", "e", "t", "r", "o">>, "metro", "metro", <<>>),
    Product(<<"M", "E", "T", "R", "O">>, "metro", "metro", <<>>),
    Product(<<"t", "r", "a", "m">>, "tram", "tram", <<>>),
    Product(<<"T", "r", "a", "m">>, "tram", "tram", <<>>),
    Product(<<"T", "R", "A", "I", "N">>, "other", "other",
            <<"T", "r", "a", "i", "n">>),
    Product(<<"n", "i", "g", "h", "t", " ", "b", "u", "s">>, "other", "other",
            <<"N", "i", "g", "h", "t", " ", "B", "u", "s">>) }
Transportations ==
  { NoTransportation }
    \cup { [nil |-> FALSE, ProductName |-> p.letters, Number |-> n, Destination |-> d] :
             p \in ProductPool, n \in {"", "177"}, d \in {"", "Odenplan"} }
ModeLeg(transportation, planned) ==
  [BusLeg EXCEPT !.Transportation = transportation,
                 !.Origin.DepartureTimePlanned = planned,
                 !.Origin.DepartureTimeEstimated = <<>>]
ModeJourneys ==
  { << Journey("a", 600, 0, << ModeLeg(t, p) >>) >> :
      t \in Transportations,
      p \in { <<>>, <<"2024-01-15", "T", "0", "8", ":", "0", "0", ":", "0", "0", "Z">> } }

LegSpec == RenderInit(ModeJourneys, {1}) /\ [][FormatNext]_vars

\* The formatter called again on the journeys and the count of its first
\* call, under other labels and after calls on other journeys.
Labels == {"Home", "Work", ""}
MaxBetween == 1

\* A call on other arguments between the two: its text is dropped.
RenderOther(js, c) ==
  /\ render.done /\ ~render.twice
  /\ render.between < MaxBetween
  /\ js # render.journeys
  /\ FormatJourneys("Home", "Work", js, c) # <<>>
  /\ render' = [render EXCEPT !.between = @ + 1]
  /\ UNCHANGED << handlerVars, prefs, call, tzLoaded, match, storeMu, siteCache >>

RenderAgain(originLabel, destinationLabel) ==
  /\ render.done /\ ~render.twice
  /\ render' = [render EXCEPT
                  !.twice = TRUE,
                  !.again = FormatJourneys(originLabel, destinationLabel,
                                           render.journeys, render.count)]
  /\ UNCHANGED << handlerVars, prefs, call, tzLoaded, match, storeMu, siteCache >>

RepeatNext ==
  \/ RenderJourneys
  \/ \E js \in {<< J2 >>, << J4, J1 >>}, c \in {0, 1} : RenderOther(js, c)
  \/ \E o \in Labels, d \in Labels : RenderAgain(o, d)

RepeatSpec == FormatInit /\ [][RepeatNext]_vars


\* ------------------------------------------------------------ FuzzyMatch

\* strings.Contains
Contains(s, substr) ==
  \E i \in 0..(Len(s) - Len(substr)) : SubSeq(s, i + 1, i + Len(substr)) = substr

\* for _, site := range sites { ... }: the matches so far, from sites[i] on.
RECURSIVE FuzzyScan(_, _, _, _, _)
FuzzyScan(query, sites, count, i, matches) ==
  IF i > Len(sites) THEN matches
  ELSE IF Contains(ToLower(sites[i].Name), query)
  THEN IF Len(matches) + 1 >= count
       THEN Append(matches, sites[i])
       ELSE FuzzyScan(query, sites, count, i + 1, Append(matches, sites[i]))
  ELSE FuzzyScan(query, sites, count, i + 1, matches)

FuzzyMatch(query, sites, count) == FuzzyScan(ToLower(query), sites, count, 1, <<>>)

\* The sites, the queries and the counts FuzzyMatch is called with.
MaxSites == 3
Site(name, id) == [Name |-> name, SiteID |-> id]
SitePool ==
  { Site(<<"A", "b">>, 1), Site(<<"b", "a">>, 2), Site(<<"C">>, 3) }
SiteLists == SeqsUpTo(SitePool, MaxSites)
Queries == { <<>>, <<"a">>, <<"A">>, <<"b">>, <<"a", "B">>, <<"x">> }
MatchCounts == -1..3

MatchInit ==
  /\ pendingHome = EmptyMap
  /\ pendingWork = EmptyMap
  /\ mu = [w |-> 0, r |-> {}]
  /\ prefs = EmptyMap
  /\ procs = [p \in Procs |-> Idle]
  /\ started = 0
  /\ issued = 0
  /\ call = NoCall
  /\ render = NoRender
  /\ tzLoaded = TRUE
  /\ match \in { [NoMatch EXCEPT !.query = q, !.sites = s, !.count = c] :
                   q \in Queries, s \in SiteLists, c \in MatchCounts }
  /\ storeMu = [w |-> 0, r |-> {}]
  /\ siteCache = <<>>

\* matches := FuzzyMatch(query, sites, count)
CallFuzzyMatch ==
  /\ ~match.done
  /\ match' = [match EXCEPT !.done = TRUE,
                            !.out = FuzzyMatch(match.query, match.sites, match.count)]
  /\ UNCHANGED << handlerVars, prefs, call, render, tzLoaded, storeMu, siteCache >>

MatchNext == CallFuzzyMatch

MatchSpec == MatchInit /\ [][MatchNext]_vars

\* ------------------------------------------ Client.StopFinder, driven alone

\* dryRunStopFinder's fixtures.
dryRunLocations == << L1, L2, L3 >>

\* dryRunStopFinder(query, limit): the fixtures, cut to the limit.
dryRunStopFinder(limit) ==
  IF limit > 0 /\ Len(dryRunLocations) > limit
  THEN SubSeq(dryRunLocations, 1, limit)
  ELSE dryRunLocations

\* c.StopFinder(ctx, query, limit): the fixtures of a dry run; the error of
\* the request or of the decoding; or the backend's locations, cut.
ClientStopFinder(dryRun, failed, respLocations, limit) ==
  IF dryRun THEN [locs |-> dryRunStopFinder(limit), err |-> FALSE]
  ELSE IF failed THEN [locs |-> <<>>, err |-> TRUE]
  ELSE [locs |-> StopFinder(respLocations, limit), err |-> FALSE]

\* The calls: dry run or not, a backend that fails or answers with up to
\* MaxLocations locations (some of them twice), and a limit.
MaxLocations == 3
LocationLists == SeqsUpTo({L1, L2, L3}, MaxLocations)
Limits == -1..4

FinderInit ==
  /\ pendingHome = EmptyMap
  /\ pendingWork = EmptyMap
  /\ mu = [w |-> 0, r |-> {}]
  /\ prefs = EmptyMap
  /\ procs = [p \in Procs |-> Idle]
  /\ started = 0
  /\ issued = 0
  /\ render = NoRender
  /\ tzLoaded = TRUE
  /\ match = NoMatch
  /\ storeMu = [w |-> 0, r |-> {}]
  /\ siteCache = <<>>
  /\ call \in { [op |-> "StopFinder", userID |-> 0,
                 arg |-> [dryRun |-> d, respLocations |-> r, limit |-> l],
                 failed |-> f, ret |-> <<>>] :
                  d \in BOOLEAN, r \in LocationLists, l \in Limits, f \in BOOLEAN }

\* locs, err := c.StopFinder(ctx, query, limit)
CallStopFinder ==
  /\ call.op = "StopFinder"
  /\ call.ret = <<>>
  /\ call' = [call EXCEPT !.ret =
       << ClientStopFinder(call.arg.dryRun, call.failed,
                           call.arg.respLocations, call.arg.limit) >>]
  /\ UNCHANGED << handlerVars, prefs, render, tzLoaded, match, storeMu, siteCache >>

FinderNext == CallStopFinder

FinderSpec == FinderInit /\ [][FinderNext]_vars

\* ------------------------------------------------ bot.Handler (site IDs)

\* The handler of the site-ID bot keeps its pending lists as []sl.Site under
\* the same field names, and its main loop handles one update to its end
\* before it takes the next: each of its two handlers is one step.

\* slClient.GetSites: the sites of the backend.
SiteCatalogue ==
  << Site(<<"A", "b">>, 1), Site(<<"b", "a">>, 2), Site(<<"C">>, 3),
     Site(<<"c", "a">>, 12) >>
SiteQueries == { <<>>, <<"a">>, <<"c">>, <<"x">> }

\* fmt.Sprintf("home_%d_%d", userID, site.SiteID)
SiteButtonData(role, userID, siteID) ==
  << role >> \o <<"_">> \o Itoa(userID) \o <<"_">> \o Itoa(siteID)
SiteButtons(role, userID, matches) ==
  [i \in 1..Len(matches) |->
     [label |-> << matches[i].Name, "" >>,
      data |-> SiteButtonData(role, userID, matches[i].SiteID)]]

SiteInit ==
  /\ pendingHome = EmptyMap
  /\ pendingWork = EmptyMap
  /\ mu = [w |-> 0, r |-> {}]
  /\ prefs = EmptyMap
  /\ procs = [p \in Procs |-> Idle]
  /\ started = 0
  /\ issued = 0
  /\ call = NoCall
  /\ render = NoRender
  /\ tzLoaded = TRUE
  /\ match = NoMatch
  /\ storeMu = [w |-> 0, r |-> {}]
  \* main's SetSites(sites) at startup, unless its GetSites failed
  /\ siteCache \in { <<>>, SiteCatalogue }

\* The record of the update handled, in the slot of the update.
SiteLaunch(p, rec) ==
  /\ procs' = [procs EXCEPT ![p] = rec]
  /\ started' = started + 1
  /\ UNCHANGED << issued, call, render, tzLoaded, match >>

\* handleSetHome / handleSetWork of the site-ID handler: the usage hint, the
\* fetch of the sites when none are cached, FuzzyMatch with count 3, and
\* the branches on the number of matches.
SiteSetLocation(p, role, userID, query, fetchFailed, saveFailed) ==
  LET base == [Idle EXCEPT !.kind = "set" \o role, !.pc = "done", !.userID = userID,
                           !.role = role, !.query = QueryText(query)]
      fetch == query # <<>> /\ Len(siteCache) = 0
      cached == IF fetch /\ ~fetchFailed THEN SiteCatalogue ELSE siteCache
      matches == FuzzyMatch(query, cached, 3)
      ID == Itoa(matches[1].SiteID)
  IN  /\ FirstFree(p)
      /\ started < MaxEvents
      /\ siteCache' = cached
      /\ UNCHANGED << mu, storeMu >>
      /\ IF query = <<>>
         THEN /\ UNCHANGED << pendingHome, pendingWork, prefs >>
              /\ SiteLaunch(p, [base EXCEPT !.outcome = "QueryInvalid",
                                        !.sent = << TextMsg("Usage", role) >>])
         ELSE IF fetch /\ fetchFailed
         THEN /\ UNCHANGED << pendingHome, pendingWork, prefs >>
              /\ SiteLaunch(p, [base EXCEPT !.outcome = "LookupFailed", !.lookup = "failed",
                                        !.sent = << TextMsg("Error fetching sites", "") >>])
         ELSE IF Len(matches) = 0
         THEN /\ UNCHANGED << pendingHome, pendingWork, prefs >>
              /\ SiteLaunch(p, [base EXCEPT !.outcome = "NoMatches", !.lookup = "ok",
                                        !.sent = << TextMsg("No sites found matching",
                                                            QueryText(query)) >>])
         ELSE IF Len(matches) = 1
         THEN /\ UNCHANGED << pendingHome, pendingWork >>
              /\ prefs' = SetLocation(role, userID, ID)
              /\ SiteLaunch(p, [base EXCEPT
                   !.lookup = "ok", !.matches = matches, !.saveErr = saveFailed,
                   !.writes = << << role, userID, ID >> >>,
                   !.outcome = IF saveFailed THEN "PersistenceFailed" ELSE "Resolved",
                   !.sent = IF saveFailed
                            THEN << TextMsg("Error saving preference", "") >>
                            ELSE << TextMsg(SetConfirmation(role), matches[1].Name) >>])
         ELSE /\ IF role = "home"
                 THEN pendingHome' = MapPut(pendingHome, userID, matches)
                        /\ UNCHANGED pendingWork
                 ELSE pendingWork' = MapPut(pendingWork, userID, matches)
                        /\ UNCHANGED pendingHome
              /\ UNCHANGED prefs
              /\ SiteLaunch(p, [base EXCEPT
                   !.lookup = "ok", !.matches = matches, !.outcome = "PromptIssued",
                   !.sent = << PromptMsg(QueryText(query),
                                         SiteButtons(role, userID, matches)) >>])

\* A lookup that takes the first site of the list, whatever its ID.
siteNameIn_First(matches, siteID) ==
  IF matches = <<>> THEN <<>> ELSE Head(matches).Name
\* for _, site := range matches { if site.SiteID == siteID { siteName =
\* site.Name; break } }: the name of the first site with the ID, or "".
RECURSIVE siteNameIn(_, _)
siteNameIn(matches, siteID) ==
  IF matches = <<>> THEN <<>>
  ELSE IF Head(matches).SiteID = siteID THEN Head(matches).Name
  ELSE siteNameIn(Tail(matches), siteID)

\* The clicks: the buttons of the prompts, buttons of sites no prompt of
\* the queries shows, and data that is not a click of this handler.
SiteClicks ==
  { SiteButtonData(role, u, id) : role \in Roles, u \in Users, id \in {1, 2, 3, 12} }
  \cup { <<"home", "_", "1">>, <<"home", "_", "x", "_", "1">>,
         <<"work", "_", "1", "_", "x">>, <<"priority", "_", "1", "_", "2">> }

\* HandleCallback of the site-ID handler.
SiteCallback(p, data, saveFailed) ==
  LET parts == Split(data)
      user == Atoi(parts[2])
      site == Atoi(parts[3])
      understood == Len(parts) = 3 /\ user.ok /\ site.ok
                      /\ parts[1] \in { <<"home">>, <<"work">> }
      role == parts[1][1]
      userID == user.val
      siteID == site.val
      matches == MapGet(PendingOf(role), userID)
      siteName == siteNameIn(matches, siteID)
      ID == Itoa(siteID)
      base == [Idle EXCEPT !.kind = "callback", !.pc = "done", !.data = data]
      click == [base EXCEPT !.userID = userID, !.role = role, !.action = parts[1],
                            !.selectionIndex = siteID, !.matches = matches]
  IN  /\ FirstFree(p)
      /\ started < MaxEvents
      /\ UNCHANGED << mu, storeMu, siteCache >>
      /\ IF ~understood
         THEN /\ UNCHANGED << pendingHome, pendingWork, prefs >>
              /\ SiteLaunch(p, [base EXCEPT !.outcome = "Ignored"])
         ELSE IF siteName = <<>>
         THEN /\ UNCHANGED << pendingHome, pendingWork, prefs >>
              /\ SiteLaunch(p, [click EXCEPT !.outcome = "Invalid",
                     !.sent = << TextMsg("Site not found in pending selections", "") >>])
         ELSE IF saveFailed
         THEN /\ UNCHANGED << pendingHome, pendingWork >>
              /\ prefs' = SetLocation(role, userID, ID)
              /\ SiteLaunch(p, [click EXCEPT !.outcome = "PersistenceFailed", !.saveErr = TRUE,
                     !.writes = << << role, userID, ID >> >>,
                     !.sent = << TextMsg("Error saving preference", "") >>])
         ELSE /\ prefs' = SetLocation(role, userID, ID)
              /\ IF role = "home"
                 THEN pendingHome' = MapDelete(pendingHome, userID) /\ UNCHANGED pendingWork
                 ELSE pendingWork' = MapDelete(pendingWork, userID) /\ UNCHANGED pendingHome
              /\ SiteLaunch(p, [click EXCEPT !.outcome = "Resolved",
                     !.writes = << << role, userID, ID >> >>,
                     !.sent = << EditMsg(SetConfirmation(role), siteName) >>])

SiteNext ==
  \/ \E p \in Procs, role \in Roles, u \in Users, q \in SiteQueries,
        ff \in BOOLEAN, sf \in BOOLEAN : SiteSetLocation(p, role, u, q, ff, sf)
  \/ \E p \in Procs, d \in SiteClicks, sf \in BOOLEAN : SiteCallback(p, d, sf)

SiteSpec == SiteInit /\ [][SiteNext]_vars

\* ------------------------------------------- callback data, there and back

\* The tokens the prompts are built with: a role, a user ID of either sign
\* and a position for a location button; a user ID and one of the three
\* values for a priority button.
MaxUserID == 12
MaxPosition == 11
UserIDs == (0 - MaxUserID)..MaxUserID
TokenInputs ==
  { [kind |-> "location", role |-> r, position |-> i, value |-> ""] :
      r \in Roles, i \in 0..MaxPosition }
  \cup { [kind |-> "priority", role |-> "", position |-> 0, value |-> v] :
           v \in PriorityValues }

TokenInit ==
  /\ pendingHome = EmptyMap
  /\ pendingWork = EmptyMap
  /\ mu = [w |-> 0, r |-> {}]
  /\ prefs = EmptyMap
  /\ procs = [p \in Procs |-> Idle]
  /\ started = 0
  /\ issued = 0
  /\ render = NoRender
  /\ tzLoaded = TRUE
  /\ match = NoMatch
  /\ storeMu = [w |-> 0, r |-> {}]
  /\ siteCache = <<>>
  /\ call \in { [op |-> "token", userID |-> u, arg |-> a, failed |-> FALSE, ret |-> <<>>] :
                  u \in UserIDs, a \in TokenInputs }

\* The data a prompt gives the button, and what HandleCallback makes of it
\* when the button is clicked.
ClickButton ==
  /\ call.op = "token"
  /\ call.ret = <<>>
  /\ LET data == IF call.arg.kind = "location"
                 THEN ButtonData(call.arg.role, call.userID, call.arg.position)
                 ELSE PriorityData(call.userID, call.arg.value)
     IN  call' = [call EXCEPT !.ret =
                    << [data |-> data,
                        callback |-> DecodeCallback(data, NoMessage),
                        value |-> Decode(data).value] >>]
  /\ UNCHANGED << handlerVars, prefs, render, tzLoaded, match, storeMu, siteCache >>

TokenNext == ClickButton

TokenSpec == TokenInit /\ [][TokenNext]_vars

\* ------------------------------------------------------------------ claims

\* A click on a location button that reached the pending maps.
LocationClick(p) == procs[p].kind = "callback" /\ procs[p].role \in Roles
ClickDone(p) == LocationClick(p) /\ procs[p].pc = "done"
InRange(i, n) == 0 <= i /\ i < n
\* The store write a click at position i of list m makes.
WriteOf(p) ==
  << procs[p].role, procs[p].userID, procs[p].matches[procs[p].selectionIndex + 1].ID >>
PendingUnchanged == pendingHome' = pendingHome /\ pendingWork' = pendingWork
Stepped(p) == procs'[p] # procs[p]

\* C1 as claimed: a click at position p against the pending list of length N
\* it finds succeeds and persists the candidate at p when 0 <= p < N, and
\* otherwise fails as SelectionInvalid without a preference write.
C1_ClickInRangeSucceeds ==
  \A p \in Procs :
    ClickDone(p) =>
      IF InRange(procs[p].selectionIndex, Len(procs[p].matches))
      THEN procs[p].outcome = "Resolved" /\ procs[p].writes = << WriteOf(p) >>
      ELSE procs[p].outcome = "Invalid" /\ procs[p].writes = <<>>

\* C1 amended: when 0 <= p < N the click writes the ID of the candidate at p
\* to the store (the store's location for that role and user is that ID when
\* the write returns) and ends Resolved, or PersistenceFailed when the store
\* reports an error; otherwise it ends SelectionInvalid without any write.
C1_ClickPersistsAtPosition ==
  /\ [](\A p \in Procs :
          ClickDone(p) =>
            IF InRange(procs[p].selectionIndex, Len(procs[p].matches))
            THEN /\ procs[p].outcome \in {"Resolved", "PersistenceFailed"}
                 /\ procs[p].writes = << WriteOf(p) >>
            ELSE /\ procs[p].outcome = "Invalid"
                 /\ procs[p].writes = <<>>)
  /\ [][\A p \in Procs :
          (LocationClick(p) /\ procs[p].pc = "save" /\ Stepped(p)) =>
            /\ procs[p].userID \in DOMAIN prefs'
            /\ LocationOf(procs[p].role, prefs'[procs[p].userID]) = WriteOf(p)[3]
            /\ procs'[p].outcome \in {"", "PersistenceFailed"}]_vars

\* A click at position 1 has resolved: the store holds the ID of the second
\* candidate of the list the click found.
C1_Witness ==
  \E p \in Procs :
    /\ ClickDone(p) /\ procs[p].outcome = "Resolved"
    /\ procs[p].selectionIndex = 1
    /\ LocationOf(procs[p].role, GetPrefs(procs[p].userID)) = procs[p].matches[2].ID

\* The put of a set-location handler p: the step from "put" to "prompt".
PutStep(p) == procs[p].pc = "put" /\ procs'[p].pc = "prompt"
\* The delete of a click p that has saved.
DeleteStep(p) == procs[p].pc = "delete" /\ procs'[p].pc = "edit"
\* The read of a click p, and its bounds check.
ReadStep(p) == procs[p].pc = "read" /\ Stepped(p)
CheckStep(p) == procs[p].pc = "check" /\ Stepped(p)
Holds(role, userID) == userID \in DOMAIN PendingOf(role)
HoldsAfter(role, userID) ==
  IF role = "home" THEN userID \in DOMAIN pendingHome' ELSE userID \in DOMAIN pendingWork'
ListAfter(role, userID) ==
  IF role = "home" THEN pendingHome'[userID] ELSE pendingWork'[userID]

\* C2: a query with N >= 2 candidates leaves exactly its N candidates, in
\* order, pending for (user, role).  Once a click has resolved the list the
\* entry is gone; it comes back only by a new query's put for that (user,
\* role); and a click that finds no list ends Invalid and persists nothing.
C2_IssuedThenTakenOnce ==
  [][/\ \A p \in Procs :
          PutStep(p) =>
            /\ Len(procs[p].locs) >= 2
            /\ HoldsAfter(procs[p].role, procs[p].userID)
            /\ ListAfter(procs[p].role, procs[p].userID) = procs[p].locs
     /\ \A p \in Procs :
          DeleteStep(p) => ~HoldsAfter(procs[p].role, procs[p].userID)
     /\ \A role \in Roles, u \in Users :
          (~Holds(role, u) /\ HoldsAfter(role, u)) =>
            \E q \in Procs :
              PutStep(q) /\ procs[q].role = role /\ procs[q].userID = u
     /\ \A p \in Procs :
          (ReadStep(p) /\ ~Holds(procs[p].role, procs[p].userID)) =>
            procs'[p].matches = <<>>
     /\ \A p \in Procs :
          (CheckStep(p) /\ procs[p].matches = <<>>) =>
            /\ procs'[p].pc = "done"
            /\ procs'[p].outcome = "Invalid"
            /\ procs'[p].writes = <<>>
            /\ procs'[p].sent # <<>>
            /\ prefs' = prefs]_vars

\* One click has resolved the list of (user, role); a second click at an
\* in-range position of that list, made with no query in between, found no
\* list and ended Invalid.
C2_Witness ==
  \E p, q \in Procs :
    /\ p # q /\ ClickDone(p) /\ ClickDone(q)
    /\ procs[p].role = procs[q].role /\ procs[p].userID = procs[q].userID
    /\ procs[p].outcome = "Resolved" /\ Len(procs[p].matches) >= 2
    /\ procs[q].outcome = "Invalid" /\ procs[q].matches = <<>>
    /\ procs[q].gen = procs[p].gen
    /\ InRange(procs[q].selectionIndex, Len(procs[p].matches))
    /\ ~Holds(procs[p].role, procs[p].userID)

\* A set-location handler whose search gave exactly one candidate.
SingleMatch(p) ==
  procs[p].kind \in {"sethome", "setwork"} /\ Len(procs[p].locs) = 1

\* C3: with exactly one candidate the handler writes that candidate's ID
\* for the role to the store at once, sends no prompt, and no step of it
\* changes a pending map.
C3_SingleCandidateShortCircuit ==
  /\ [](\A p \in Procs :
          (SingleMatch(p) /\ procs[p].pc = "done") =>
            /\ procs[p].writes = << << procs[p].role, procs[p].userID, procs[p].locs[1].ID >> >>
            /\ \A i \in 1..Len(procs[p].sent) : procs[p].sent[i].kind # "prompt"
            /\ procs[p].outcome \in {"Resolved", "PersistenceFailed"})
  /\ [][\A p \in Procs :
          (Stepped(p) /\ procs'[p].kind \in {"sethome", "setwork"}
             /\ Len(procs'[p].locs) = 1) =>
            /\ PendingUnchanged
            /\ mu' = mu
            /\ (procs[p].pc = "save" =>
                  /\ procs'[p].pc = "done"
                  /\ procs[p].userID \in DOMAIN prefs'
                  /\ LocationOf(procs[p].role, prefs'[procs[p].userID])
                       = procs[p].locs[1].ID)]_vars

\* A single-candidate query has been resolved while another user's list was
\* pending.
C3_Witness ==
  \E p \in Procs :
    /\ SingleMatch(p) /\ procs[p].pc = "done" /\ procs[p].outcome = "Resolved"
    /\ LocationOf(procs[p].role, GetPrefs(procs[p].userID)) = procs[p].locs[1].ID
    /\ pendingHome # EmptyMap

\* C4 as claimed: of two clicks at in-range positions that found the same
\* issued list of one (user, role), at most one resolves it.
C4_AtMostOneClickResolves ==
  \A p, q \in Procs :
    (/\ p # q /\ LocationClick(p) /\ LocationClick(q)
     /\ procs[p].role = procs[q].role /\ procs[p].userID = procs[q].userID
     /\ procs[p].matches # <<>> /\ procs[q].matches # <<>>
     /\ procs[p].gen = procs[q].gen)
    => ~(procs[p].outcome = "Resolved" /\ procs[q].outcome = "Resolved")

\* C5 as claimed: the entry a click removes is the list that click read and
\* validated against, never a list a query has stored since.
C5_ClickRemovesOnlyTheListItRead ==
  [][\A p \in Procs :
       (DeleteStep(p) /\ Holds(procs[p].role, procs[p].userID)) =>
         PendingOf(procs[p].role)[procs[p].userID] = procs[p].matches]_vars

\* The save of a click whose store write reports an error.
FailedSave(p) ==
  LocationClick(p) /\ procs[p].pc = "save" /\ procs'[p].outcome = "PersistenceFailed"

FailedSaveTouchesNothing ==
  [][\A p \in Procs :
       /\ FailedSave(p) => (PendingUnchanged /\ mu' = mu /\ procs'[p].pc = "done")
       /\ (LocationClick(p) /\ Stepped(p) /\ procs[p].pc \in {"rlock", "read", "check", "save"})
            => PendingUnchanged]_vars

Malformed(data) ==
  LET f == Split(data)
  IN  \/ Len(f) # 3
      \/ ~Atoi(f[2]).ok
      \/ (f[1] # <<"priority">> /\ ~Atoi(f[3]).ok)
UnknownRole(data) ==
  LET f == Split(data)
  IN  Len(f) = 3 /\ f[1] \notin { <<"homejp">>, <<"workjp">>, <<"priority">> }

\* C7 as claimed: every Invalid click (malformed token, position out of
\* bounds, no pending list) has sent a failure message when it returns.
C7_InvalidClickIsReported ==
  \A p \in Procs :
    (/\ procs[p].kind = "callback" /\ procs[p].pc = "done"
     /\ (Malformed(procs[p].data) \/ procs[p].outcome = "Invalid"))
    => procs[p].sent # <<>>

\* C8: a click with a malformed token or an unknown role returns at once,
\* writes nothing to the store and leaves both pending maps as they were.
C8_MalformedClickChangesNothing ==
  /\ [](\A p \in Procs :
          (procs[p].kind = "callback"
             /\ (Malformed(procs[p].data) \/ UnknownRole(procs[p].data))) =>
            procs[p].pc = "done" /\ procs[p].writes = <<>>)
  /\ [][\A p \in Procs :
          (Stepped(p) /\ procs'[p].kind = "callback"
             /\ (Malformed(procs'[p].data) \/ UnknownRole(procs'[p].data))) =>
            prefs' = prefs /\ PendingUnchanged /\ mu' = mu]_vars

\* A click with a button of the legacy handler ("home_1_0") has returned
\* while user 1 had a home list pending and a saved preference.
C8_Witness ==
  \E p \in Procs :
    /\ procs[p].kind = "callback" /\ procs[p].pc = "done"
    /\ procs[p].data = <<"home", "_", "1", "_", "0">>
    /\ 1 \in DOMAIN pendingHome
    /\ prefs # EmptyMap

\* The read of a click whose position is outside the list it finds.
OutOfBoundsRead(p) ==
  /\ ReadStep(p)
  /\ ~InRange(procs[p].selectionIndex,
              Len(MapGet(PendingOf(procs[p].role), procs[p].userID)))

\* The bounds check of a click whose position is outside the list it read.
OutOfBoundsCheck(p) ==
  CheckStep(p) /\ ~InRange(procs[p].selectionIndex, Len(procs[p].matches))

Catalogue == {L1, L2, L3, L4, L5, L6}
IsLocationList(v) ==
  /\ DOMAIN v = 1..Len(v)
  /\ \A i \in 1..Len(v) : v[i] \in Catalogue

\* C10: each pending map holds, per user, one list of locations; the put of
\* a query sets the entry of its (user, role) to exactly the query's list,
\* whatever was there, and changes no other entry.
C10_OneListReplacedWholesale ==
  /\ [](\A role \in Roles :
          /\ DOMAIN PendingOf(role) \subseteq Users
          /\ \A u \in DOMAIN PendingOf(role) : IsLocationList(PendingOf(role)[u]))
  /\ [][\A p \in Procs :
          PutStep(p) =>
            LET role == procs[p].role
                u == procs[p].userID
                before == PendingOf(role)
                after == IF role = "home" THEN pendingHome' ELSE pendingWork'
            IN  /\ DOMAIN after = DOMAIN before \cup {u}
                /\ after[u] = procs[p].locs
                /\ \A v \in DOMAIN before \ {u} : after[v] = before[v]
                /\ IF role = "home" THEN pendingWork' = pendingWork
                                    ELSE pendingHome' = pendingHome]_vars

\* A second query for the same (user, role) has put its list where the list
\* of an earlier query, a different one, was pending.
C10_Witness ==
  \E p, q \in Procs :
    /\ p # q
    /\ procs[p].kind \in {"sethome", "setwork"} /\ procs[p].kind = procs[q].kind
    /\ procs[p].userID = procs[q].userID
    /\ procs[p].outcome = "PromptIssued" /\ procs[q].outcome = "PromptIssued"
    /\ procs[p].locs # procs[q].locs
    /\ Len(procs[p].locs) > Len(procs[q].locs)
    /\ issued = 2
    /\ MapGet(PendingOf(procs[q].role), procs[q].userID) = procs[q].locs

\* A /sethome or /setwork handler, and a message text that is such a command
\* followed by nothing but spaces.
IsSet(p) == procs[p].kind \in {"sethome", "setwork"}
BlankQuery(text) ==
  /\ Len(text) >= 1 /\ text[1] \in {"/sethome", "/setwork"}
  /\ \A i \in 2..Len(text) : text[i] = " "
NoPrompt(p) == \A i \in 1..Len(procs[p].sent) : procs[p].sent[i].kind # "prompt"
StoreAndPendingUnchanged == PendingUnchanged /\ prefs' = prefs /\ mu' = mu

\* C11: a /sethome or /setwork whose query is empty or only spaces is
\* answered with the usage hint and returns without a call to the stop
\* finder, without a store write and without a change to the pending maps.
C11_BlankQueryGetsUsageHint ==
  /\ [](\A p \in Procs :
          (IsSet(p) /\ BlankQuery(procs[p].text)) =>
            /\ procs[p].pc = "done" /\ procs[p].outcome = "QueryInvalid"
            /\ procs[p].sent = << TextMsg("Usage", procs[p].role) >>
            /\ procs[p].searches = 0 /\ procs[p].writes = <<>>)
  /\ [][\A p \in Procs :
          (Stepped(p) /\ procs'[p].kind \in {"sethome", "setwork"}
             /\ BlankQuery(procs'[p].text)) => StoreAndPendingUnchanged]_vars

\* "/sethome " (a space after the command) has got the usage hint while a
\* list was pending and a preference was saved.
C11_Witness ==
  \E p \in Procs :
    /\ IsSet(p) /\ procs[p].text = <<"/sethome", " ">>
    /\ procs[p].outcome = "QueryInvalid"
    /\ pendingHome # EmptyMap /\ prefs # EmptyMap

\* C12: when the stop finder answers without error and with no location, the
\* handler sends the "No locations found" message, which is not the message
\* of a failed lookup, and returns: no store write, no prompt, no change to
\* the pending maps.
C12_ZeroCandidatesIsNoMatches ==
  /\ [](\A p \in Procs :
          (IsSet(p) /\ procs[p].lookup = "ok" /\ procs[p].locs = <<>>) =>
            /\ procs[p].pc = "done" /\ procs[p].outcome = "NoMatches"
            /\ procs[p].sent = << TextMsg("No locations found", procs[p].query) >>
            /\ \A q \in Procs :
                 procs[q].lookup = "failed" => procs[q].sent # procs[p].sent
            /\ procs[p].writes = <<>> /\ NoPrompt(p))
  /\ [][\A p \in Procs :
          (Stepped(p) /\ procs'[p].kind \in {"sethome", "setwork"}
             /\ procs'[p].lookup = "ok" /\ procs'[p].locs = <<>>)
            => StoreAndPendingUnchanged]_vars

\* One query has found nothing and another's lookup has failed, while a list
\* was pending.
C12_Witness ==
  \E p, q \in Procs :
    /\ IsSet(p) /\ procs[p].outcome = "NoMatches" /\ procs[p].searches = 1
    /\ IsSet(q) /\ procs[q].outcome = "LookupFailed"
    /\ pendingHome # EmptyMap

\* C13: when the stop finder fails, the handler has called it once, sends the
\* one "Error searching locations" message and returns: no store write, no
\* change to the pending maps.
C13_LookupFailureReportedOnce ==
  /\ [](\A p \in Procs :
          (IsSet(p) /\ procs[p].lookup = "failed") =>
            /\ procs[p].pc = "done" /\ procs[p].outcome = "LookupFailed"
            /\ procs[p].searches = 1
            /\ procs[p].sent = << TextMsg("Error searching locations", "") >>
            /\ procs[p].writes = <<>>)
  /\ [](\A p \in Procs : IsSet(p) => procs[p].searches <= 1)
  /\ [][\A p \in Procs :
          (Stepped(p) /\ procs'[p].kind \in {"sethome", "setwork"}
             /\ procs'[p].lookup = "failed") => StoreAndPendingUnchanged]_vars

\* A lookup has failed while a list was pending and a preference was saved.
C13_Witness ==
  \E p \in Procs :
    /\ IsSet(p) /\ procs[p].outcome = "LookupFailed" /\ procs[p].searches = 1
    /\ pendingWork # EmptyMap /\ prefs # EmptyMap

\* Handler p holds h.mu, as the writer or as a reader.
LockHeldBy(p) == mu.w = p \/ p \in mu.r
\* What a handler has done to its collaborators: stop-finder and trip
\* calls, store writes, messages.
Effects(rec) == << rec.searches, rec.writes, rec.sent, rec.formatted, rec.outcome >>

\* C14: a handler holds h.mu only between its Lock/RLock and the map read,
\* write or delete that follows; the step it takes with the lock held
\* releases it and calls no collaborator (no search, no trip fetch, no store
\* write, no message).  A writer excludes every other holder.
C14_NoCollaboratorCallUnderLock ==
  /\ [](\A p \in Procs :
          /\ LockHeldBy(p) => procs[p].pc \in {"put", "delete", "read"}
          /\ procs[p].pc \in {"put", "delete"} => (mu.w = p /\ mu.r = {})
          /\ procs[p].pc = "read" => (p \in mu.r /\ mu.w = 0))
  /\ [][\A p \in Procs :
          (Stepped(p) /\ LockHeldBy(p)) =>
            /\ ~(mu'.w = p \/ p \in mu'.r)
            /\ Effects(procs'[p]) = Effects(procs[p])
            /\ prefs' = prefs]_vars

\* A click holds the write lock for its delete, having written to the store
\* before it took the lock, and a query's handler waits for the lock.
C14_Witness ==
  \E p, q \in Procs :
    /\ mu.w = p /\ procs[p].pc = "delete" /\ procs[p].writes # <<>>
    /\ procs[q].pc = "lock" /\ procs[q].kind \in {"sethome", "setwork"}

\* The fields of a button's callback data, read back.
TokenOf(data) ==
  LET f == Split(data)
  IN  IF Len(f) # 3 THEN << "", -1, -1 >>
      ELSE << IF f[1] = <<"homejp">> THEN "home"
              ELSE IF f[1] = <<"workjp">> THEN "work" ELSE "",
              IF Atoi(f[2]).ok THEN Atoi(f[2]).val ELSE -1,
              IF Atoi(f[3]).ok THEN Atoi(f[3]).val ELSE -1 >>
IsPrompt(m) == m.kind = "prompt"
\* A step in which handler p sends a message.
Sends(p) == procs'[p].sent # <<>> /\ procs'[p].sent # procs[p].sent

\* C15: a query with N >= 2 candidates ends with one prompt of N buttons in
\* candidate order, button i (from 0) labelled with candidate i and carrying
\* a token that reads back as (role, the querying user, i); the handler
\* reaches the prompt only by the step that stores its list under (user,
\* role), and sends the prompt only after that step.
C15_PromptAfterPutOneButtonPerCandidate ==
  /\ [](\A p \in Procs :
          /\ \A i \in 1..Len(procs[p].sent) :
               IsPrompt(procs[p].sent[i]) =>
                 LET b == procs[p].sent[i].buttons
                     locs == procs[p].locs
                 IN  /\ IsSet(p) /\ Len(locs) >= 2 /\ Len(b) = Len(locs)
                     /\ DOMAIN b = 1..Len(locs)
                     /\ \A k \in 1..Len(locs) :
                          /\ b[k].label = << locs[k].Name, locs[k].Type >>
                          /\ TokenOf(b[k].data)
                               = << procs[p].role, procs[p].userID, k - 1 >>
          /\ (IsSet(p) /\ procs[p].pc = "done" /\ Len(procs[p].locs) >= 2) =>
               /\ procs[p].outcome = "PromptIssued"
               /\ Len(procs[p].sent) = 1 /\ IsPrompt(procs[p].sent[1]))
  /\ [][\A p \in Procs :
          /\ (Stepped(p) /\ procs'[p].pc = "prompt") =>
               /\ PutStep(p)
               /\ HoldsAfter(procs[p].role, procs[p].userID)
               /\ ListAfter(procs[p].role, procs[p].userID) = procs[p].locs
          /\ (Sends(p) /\ IsPrompt(procs'[p].sent[Len(procs'[p].sent)])) =>
               procs[p].pc = "prompt"]_vars

\* User 2's /setwork has been answered with five candidates (the backend
\* gave six) and the prompt has gone out.
C15_Witness ==
  \E p \in Procs :
    /\ procs[p].kind = "setwork" /\ procs[p].userID = 2
    /\ procs[p].outcome = "PromptIssued" /\ Len(procs[p].locs) = 5
    /\ Len(procs[p].sent[1].buttons) = 5

IsConfirmation(m) == m.text[1] \in {"Home set to", "Work set to"}

\* C16: a handler that has sent "Home set to" / "Work set to" has written
\* the named candidate's ID for that role to the store, with the store
\* returning ok, no later than the step that sends it; a handler whose store
\* write failed sends no confirmation.
C16_ConfirmationOnlyAfterWriteOk ==
  /\ [](\A p \in Procs :
          /\ \A i \in 1..Len(procs[p].sent) :
               IsConfirmation(procs[p].sent[i]) =>
                 /\ ~procs[p].saveErr
                 /\ procs[p].outcome = "Resolved"
                 /\ procs[p].writes
                      = << << procs[p].role, procs[p].userID, procs[p].selected.ID >> >>
                 /\ procs[p].sent[i].text
                      = << IF procs[p].role = "home" THEN "Home set to" ELSE "Work set to",
                           procs[p].selected.Name >>
          /\ procs[p].saveErr =>
               /\ procs[p].outcome = "PersistenceFailed"
               /\ \A i \in 1..Len(procs[p].sent) : ~IsConfirmation(procs[p].sent[i]))
  /\ [][\A p \in Procs :
          (Sends(p) /\ IsConfirmation(procs'[p].sent[Len(procs'[p].sent)])) =>
            \/ procs[p].writes # <<>>
            \/ /\ procs[p].userID \in DOMAIN prefs'
               /\ LocationOf(procs[p].role, prefs'[procs[p].userID])
                    = procs[p].selected.ID]_vars

\* A click and a single-candidate query have both been confirmed, and
\* another handler's store write has failed.
C16_Witness ==
  \E p, q \in Procs :
    /\ ClickDone(p) /\ procs[p].outcome = "Resolved"
    /\ procs[p].sent = << EditMsg("Work set to", procs[p].matches[2].Name) >>
    /\ procs[p].selectionIndex = 1
    /\ IsSet(q) /\ procs[q].outcome = "PersistenceFailed" /\ procs[q].saveErr

\* The preferences of user u before a store call: its record, or the empty
\* preferences.
Before(u) ==
  IF u \in DOMAIN prefs THEN prefs[u]
  ELSE [HomeLocation |-> "", WorkLocation |-> "", RoutePriority |-> <<>>]
OthersUntouched(u) ==
  \A v \in Users \ {u} :
    /\ v \in DOMAIN prefs' <=> v \in DOMAIN prefs
    /\ v \in DOMAIN prefs => prefs'[v] = prefs[v]

\* C17: SetHome sets the user's home location and nothing else, SetWork the
\* work location, SetPriority the route priority: the user's two other
\* fields stay as they were (empty when the record is new) and no other
\* user's record appears, disappears or changes.  GetPrefs returns the
\* user's record, or empty preferences, and leaves the store as it was.
C17_FieldsIndependentAndLazy ==
  [][LET c == call'
         u == c.userID
     IN  /\ c.op \in {"SetHome", "SetWork", "SetPriority"} =>
              /\ u \in DOMAIN prefs'
              /\ OthersUntouched(u)
         /\ c.op = "SetHome" =>
              /\ prefs'[u].HomeLocation = c.arg
              /\ prefs'[u].WorkLocation = Before(u).WorkLocation
              /\ prefs'[u].RoutePriority = Before(u).RoutePriority
         /\ c.op = "SetWork" =>
              /\ prefs'[u].WorkLocation = c.arg
              /\ prefs'[u].HomeLocation = Before(u).HomeLocation
              /\ prefs'[u].RoutePriority = Before(u).RoutePriority
         /\ c.op = "SetPriority" =>
              /\ prefs'[u].RoutePriority = << c.arg >>
              /\ prefs'[u].HomeLocation = Before(u).HomeLocation
              /\ prefs'[u].WorkLocation = Before(u).WorkLocation
         /\ c.op = "GetPrefs" =>
              /\ prefs' = prefs
              /\ c.ret = << Before(u) >>]_vars

\* GetPrefs for user 2, who has no record, has returned empty preferences
\* and made no record, while user 1 has all three fields set.
C17_Witness ==
  /\ call.op = "GetPrefs" /\ call.userID = 2
  /\ 2 \notin DOMAIN prefs
  /\ call.ret = << [HomeLocation |-> "", WorkLocation |-> "", RoutePriority |-> <<>>] >>
  /\ 1 \in DOMAIN prefs
  /\ prefs[1].HomeLocation # "" /\ prefs[1].WorkLocation # ""
  /\ prefs[1].RoutePriority # <<>>

\* C18 as claimed: every stored route priority is unset or one of leasttime,
\* leastinterchange, leastwalking.
C18_PriorityInEnum ==
  \A u \in DOMAIN prefs :
    prefs[u].RoutePriority
      \in { <<>>, <<"leasttime">>, <<"leastinterchange">>, <<"leastwalking">> }

\* The option headers of a rendering, and the minutes a journey shows.
IsHeader(line) == line # <<>> /\ line[1] = "Option"
HeaderLines(out) == SelectSeq(out, IsHeader)
ShownMinutes(j) ==
  LET d == IF j.TripRtDuration # 0 THEN j.TripRtDuration ELSE j.TripDuration
  IN  (d + 59) \div 60
StartsWith(line, prefix) ==
  Len(line) >= Len(prefix) /\ SubSeq(line, 1, Len(prefix)) = prefix
Rendered == render.done

\* C20: FormatJourneys renders k = min(c, number of journeys) options, c
\* being the count when it is > 0 and 3 otherwise; option i (from 1) is
\* numbered i and is the i-th journey of the input.
C20_OptionCountClamped ==
  Rendered =>
    LET n == Len(render.journeys)
        c == IF render.count > 0 THEN render.count ELSE 3
        k == IF c < n THEN c ELSE n
        h == HeaderLines(render.out)
    IN  /\ Len(h) = k
        /\ \A i \in 1..k :
             StartsWith(h[i], <<"Option">> \o Itoa(i) \o <<"(">>
                                \o Itoa(ShownMinutes(render.journeys[i])))

\* Four journeys rendered with count 0: three options; and the options of
\* count 2 are the first two in input order.
C20_Witness ==
  /\ Rendered /\ render.count = 0 /\ Len(render.journeys) = 4
  /\ Len(HeaderLines(render.out)) = 3
  /\ render.journeys[1] = J2 /\ render.journeys[2] = J1
  /\ StartsWith(HeaderLines(render.out)[1], <<"Option", "1", "(", "2", "1">>)

Running(p) == procs[p].pc \notin {"idle", "done"}
TerminalOutcomes ==
  { "QueryInvalid", "NoMatches", "LookupFailed", "Resolved", "PromptIssued",
    "Invalid", "PersistenceFailed" }

\* C19: every /sethome, /setwork and click handler returns, whatever the
\* collaborators answer and however the handlers interleave on the lock; a
\* query and a click on a location button return with one of the terminal
\* outcomes.
C19_EveryHandlerReturns ==
  /\ \A p \in Procs : Running(p) ~> (procs[p].pc = "done")
  /\ [](\A p \in Procs :
          (procs[p].pc = "done" /\ (IsSet(p) \/ LocationClick(p))) =>
            procs[p].outcome \in TerminalOutcomes)

\* A click waits for the read lock while a query's handler holds the write
\* lock for its put.
C19_Witness ==
  \E p, q \in Procs :
    /\ procs[p].pc = "rlock" /\ LocationClick(p)
    /\ mu.w = q /\ procs[q].pc = "put"

\* ------------------------------------------------------- the formatter

Sentinel == << <<"No journeys found.">> >>

\* C21: FormatJourneys on an empty journey list returns exactly the text
\* "No journeys found.", whatever the count asked for: positive, zero or
\* negative.
C21_EmptyListIsSentinel ==
  (Rendered /\ render.journeys = <<>>) => render.out = Sentinel

\* An empty list rendered with a negative count.
C21_Witness ==
  /\ Rendered /\ render.journeys = <<>> /\ render.count = -1
  /\ render.out = Sentinel

\* The first position of a symbol in a line; 0 when the line has none.
IndexOf(line, sym) ==
  IF \E i \in 1..Len(line) : line[i] = sym
  THEN CHOOSE i \in 1..Len(line) :
         line[i] = sym /\ \A k \in 1..(i - 1) : line[k] # sym
  ELSE 0
\* The minutes a header shows: the number between "(" and "min)" or "min,".
HeaderMinutes(line) ==
  LET open == IndexOf(line, "(")
      close == IF IndexOf(line, "min)") # 0 THEN IndexOf(line, "min)")
               ELSE IndexOf(line, "min,")
  IN  Atoi(SubSeq(line, open + 1, close - 1))
IsWalkLine(line) == line # <<>> /\ line[1] = "[walk]"
WalkLines(out) == SelectSeq(out, IsWalkLine)
\* The minutes a walking line shows: "[walk] Walk <n> min".
WalkMinutes(line) == Atoi(SubSeq(line, 3, Len(line) - 1))
\* m is the ceiling of seconds / 60.
IsCeiling(m, seconds) == 60 * m >= seconds /\ 60 * (m - 1) < seconds
EffectiveDuration(j) ==
  IF j.TripRtDuration # 0 THEN j.TripRtDuration ELSE j.TripDuration

\* C22: the minutes shown are the ceiling of seconds / 60, for a walking
\* leg's duration and for the header, whose duration is the realtime
\* duration when that is not zero and the scheduled duration otherwise.
C22_MinutesAreCeiling ==
  (Rendered /\ Len(render.journeys) = 1) =>
    LET j == render.journeys[1]
        h == HeaderLines(render.out)
        w == WalkLines(render.out)
    IN  /\ Len(h) = 1
        /\ HeaderMinutes(h[1]).ok
        /\ IsCeiling(HeaderMinutes(h[1]).val, EffectiveDuration(j))
        /\ Len(w) = Len(j.Legs)
        /\ \A k \in 1..Len(w) :
             /\ WalkMinutes(w[k]).ok
             /\ IsCeiling(WalkMinutes(w[k]).val, j.Legs[k].Duration)

\* 181 s scheduled and no realtime duration shows 4 min, over a walk of
\* 180 s that shows 3 min.
C22_Witness ==
  /\ Rendered /\ Len(render.journeys) = 1
  /\ render.journeys[1].TripDuration = 181
  /\ render.journeys[1].TripRtDuration = 0
  /\ render.journeys[1].Legs[1].Duration = 180
  /\ HeaderMinutes(HeaderLines(render.out)[1]).val = 4
  /\ WalkMinutes(WalkLines(render.out)[1]).val = 3

\* The arrival time a header shows: what stands between "arrives" and ")",
\* or nothing.
ArrivalShown(line) ==
  IF IndexOf(line, "arrives") = 0 THEN <<>>
  ELSE SubSeq(line, IndexOf(line, "arrives") + 1, Len(line) - 1)
HasArrival(leg) ==
  \/ leg.Destination.ArrivalTimeEstimated # <<>>
  \/ leg.Destination.ArrivalTimePlanned # <<>>
\* The local clock of leg k's estimated (1k:00Z) or planned (1k:30Z) arrival
\* on a winter day: one hour ahead of UTC, or UTC itself without the zone.
ClockOf(k, estimated) ==
  << "1", Digits[k + (IF tzLoaded THEN 1 ELSE 0) + 1], ":",
     IF estimated THEN "0" ELSE "3", "0" >>

\* C23: the arrival time of a journey is that of the last leg that has any
\* arrival timestamp, its estimated arrival if it has one and its planned
\* arrival otherwise; with no arrival timestamp on any leg the header shows
\* no arrival time.
C23_ArrivalFromLastStampedLeg ==
  (Rendered /\ Len(render.journeys) = 1) =>
    LET legs == render.journeys[1].Legs
        stamped == { k \in 1..Len(legs) : HasArrival(legs[k]) }
        shown == ArrivalShown(HeaderLines(render.out)[1])
    IN  IF stamped = {} THEN shown = <<>>
        ELSE LET k == CHOOSE x \in stamped : \A y \in stamped : y <= x
             IN  shown = ClockOf(k, legs[k].Destination.ArrivalTimeEstimated # <<>>)

\* Three legs: the first with an estimated arrival, the second with a planned
\* arrival only, the third with none; the header shows the second's planned
\* arrival.
C23_Witness ==
  /\ Rendered /\ Len(render.journeys) = 1 /\ tzLoaded
  /\ Len(render.journeys[1].Legs) = 3
  /\ render.journeys[1].Legs[1].Destination.ArrivalTimeEstimated # <<>>
  /\ render.journeys[1].Legs[2].Destination.ArrivalTimeEstimated = <<>>
  /\ render.journeys[1].Legs[2].Destination.ArrivalTimePlanned # <<>>
  /\ ~HasArrival(render.journeys[1].Legs[3])
  /\ ArrivalShown(HeaderLines(render.out)[1]) = <<"1", "3", ":", "3", "0">>

IsDepartLine(line) == line # <<>> /\ line[1] = "Depart:"
DepartLines(out) == SelectSeq(out, IsDepartLine)
\* What a time of the pool stands for.
Meaning(text) == CHOOSE t \in TimePool : t.text = text
Pad2(n) == << Digits[(n \div 10) + 1], Digits[(n % 10) + 1] >>
\* How a time is shown: its local clock on this winter day (an hour ahead of
\* UTC, or UTC without the zone), or its raw text when it does not parse.
Shown(text) ==
  LET t == Meaning(text)
  IN  IF t.ok THEN Pad2(t.hour + (IF tzLoaded THEN 1 ELSE 0)) \o <<":">> \o Pad2(t.minute)
      ELSE text
\* The planned and the estimated departure of the one leg rendered.
OneLeg == Rendered /\ Len(render.journeys) = 1 /\ Len(render.journeys[1].Legs) = 1
PlannedText == render.journeys[1].Legs[1].Origin.DepartureTimePlanned
EstimatedText == render.journeys[1].Legs[1].Origin.DepartureTimeEstimated
OnTime(text) == <<"Depart:">> \o Shown(text) \o <<"(on time)">>

\* C24: with neither departure time there is no departure line; with one of
\* them, either one, the line is "Depart: <that time> (on time)"; with both,
\* equal at minute precision, the line is "(on time)" as well.
C24_OnTimeLine ==
  OneLeg =>
    LET d == DepartLines(render.out)
    IN  /\ (PlannedText = <<>> /\ EstimatedText = <<>>) => d = <<>>
        /\ (PlannedText # <<>> /\ EstimatedText = <<>>) => d = << OnTime(PlannedText) >>
        /\ (PlannedText = <<>> /\ EstimatedText # <<>>) => d = << OnTime(EstimatedText) >>
        /\ (/\ PlannedText # <<>> /\ EstimatedText # <<>>
            /\ Shown(PlannedText) = Shown(EstimatedText))
             => d = << OnTime(EstimatedText) >>

\* Only an estimated departure, 08:03:00.5Z: "Depart: 09:03 (on time)".
C24_Witness ==
  /\ OneLeg /\ tzLoaded /\ PlannedText = <<>>
  /\ Meaning(EstimatedText).ok /\ Meaning(EstimatedText).minute = 3
  /\ IndexOf(EstimatedText, ".") # 0
  /\ DepartLines(render.out)
       = << <<"Depart:", "0", "9", ":", "0", "3", "(on time)">> >>

\* The three forms of a departure line that is not "(on time)".
HasPlus(line) == IndexOf(line, "(+") # 0 /\ line[Len(line)] = "min)"
PlusN(line) == Atoi(SubSeq(line, IndexOf(line, "(+") + 1, Len(line) - 1))
HasEarly(line) == IndexOf(line, "(") # 0 /\ line[Len(line)] = "min early)"
EarlyN(line) == Atoi(SubSeq(line, IndexOf(line, "(") + 1, Len(line) - 1))
IsFallback(line) ==
  ~HasPlus(line) /\ ~HasEarly(line) /\ line[Len(line)] # "(on time)"
Late(text1, text2) == <<"Depart:">> \o Shown(text1) \o <<"->", "!">> \o Shown(text2)
Early(text1, text2) == <<"Depart:">> \o Shown(text1) \o <<"->">> \o Shown(text2)
\* Both departure times parse and show different clocks; the seconds from
\* the planned to the estimated instant.
BothParseAndDiffer ==
  /\ OneLeg
  /\ Meaning(PlannedText).ok /\ Meaning(EstimatedText).ok
  /\ Shown(PlannedText) # Shown(EstimatedText)
DeltaSec == Meaning(EstimatedText).sec - Meaning(PlannedText).sec
\* n is x / 60 with the fraction dropped, for x >= 0.
IsWholeMinutes(n, x) == 60 * n <= x /\ x < 60 * (n + 1)

Raw == <<"soon">>
Valid == <<"2024-01-15", "T", "0", "8", ":", "0", "0", ":", "0", "0", "Z">>
Repaired(text) == IF text = Raw THEN Valid ELSE text
ArrivalText == render.journeys[1].Legs[1].Destination.ArrivalTimePlanned
\* The journey rendered, with every raw text replaced by a timestamp.
RepairedJourney ==
  [render.journeys[1] EXCEPT
     !.Legs[1].Origin.DepartureTimePlanned = Repaired(@),
     !.Legs[1].Origin.DepartureTimeEstimated = Repaired(@),
     !.Legs[1].Destination.ArrivalTimePlanned = Repaired(@)]
HasRaw == OneLeg /\ Raw \in {PlannedText, EstimatedText, ArrivalText}

\* C26: a text that does not parse as a timestamp is shown as it is where
\* the clock would stand, in the header's arrival and in the departure line,
\* and everything else is rendered as it is for a timestamp that parses.
C26_RawTextPassesThrough ==
  HasRaw =>
    LET good == FormatJourneys("Home", "Work", << RepairedJourney >>, render.count)
        d == DepartLines(render.out)
    IN  /\ Len(render.out) = Len(good)
        /\ \A i \in 1..Len(good) :
             /\ IsHeader(render.out[i]) = IsHeader(good[i])
             /\ IsDepartLine(render.out[i]) = IsDepartLine(good[i])
             /\ (~IsHeader(good[i]) /\ ~IsDepartLine(good[i])) => render.out[i] = good[i]
        /\ ArrivalText = Raw =>
             /\ ArrivalShown(HeaderLines(render.out)[1]) = Raw
             /\ HeaderMinutes(HeaderLines(render.out)[1])
                  = HeaderMinutes(HeaderLines(good)[1])
        /\ PlannedText = Raw => Len(d) = 1 /\ SubSeq(d[1], 2, 2) = Raw
        /\ EstimatedText = Raw => Len(d) = 1 /\ IndexOf(d[1], Raw[1]) # 0
        /\ (PlannedText = Raw /\ Meaning(EstimatedText).ok) =>
             d = << Late(PlannedText, EstimatedText) >>
        /\ (Meaning(PlannedText).ok /\ EstimatedText = Raw) =>
             d = << Late(PlannedText, EstimatedText) >>

\* A raw arrival and a raw planned departure beside an estimated departure
\* of 08:03Z: "arrives soon" in the header and "Depart: soon -> ! 09:03".
C26_Witness ==
  /\ HasRaw /\ tzLoaded /\ ArrivalText = Raw /\ PlannedText = Raw
  /\ ArrivalShown(HeaderLines(render.out)[1]) = Raw
  /\ DepartLines(render.out)
       = << <<"Depart:", "soon", "->", "!", "0", "9", ":", "0", "3">> >>
  /\ Len(render.out) = 6

Icons == {"[walk]", "[bus]", "[metro]", "[tram]", "[transit]"}
IconOf(mode) == IF mode = "other" THEN "[transit]" ELSE "[" \o mode \o "]"
IsIconLine(line) == line # <<>> /\ line[1] \in Icons
IconLines(out) == SelectSeq(out, IsIconLine)
\* What the product name of the one leg rendered stands for; a leg without
\* a transportation descriptor is a walk.
TheTransportation == render.journeys[1].Legs[1].Transportation
TheProduct ==
  IF TheTransportation.nil THEN Product(<<>>, "walk", "walk", <<>>)
  ELSE CHOOSE p \in ProductPool : p.letters = TheTransportation.ProductName
HasDeparture == PlannedText # <<>> \/ EstimatedText # <<>>

\* C27 as stated: the mode is the one the product name spells in any letter
\* case, every other name is rendered generically, and the legs without a
\* departure line are exactly the walking legs.
C27_ModeByLettersOnly ==
  OneLeg =>
    LET mode == TheProduct.exact
        icons == IconLines(render.out)
    IN  /\ Len(icons) = 1
        /\ icons[1][1] = IconOf(mode)
        /\ mode = "other" => StartsWith(icons[1], <<"[transit]">> \o TheProduct.title)
        /\ (DepartLines(render.out) = <<>>) <=> (mode = "walk")

\* C27: the mode is the one the product name spells in any letter case with
\* the white space around it dropped: no descriptor, an empty name or
\* footpath is a walk, bus, metro and tram have their own rendering, every
\* other name the generic one with the name in title case; every leg gets
\* exactly one rendering; a walking leg has no departure line, and any other
\* leg has one when it carries a planned or an estimated departure time.
C27_ModeByTrimmedLetters ==
  OneLeg =>
    LET mode == TheProduct.trimmed
        icons == IconLines(render.out)
    IN  /\ Len(icons) = 1
        /\ icons[1][1] = IconOf(mode)
        /\ mode = "other" => StartsWith(icons[1], <<"[transit]">> \o TheProduct.title)
        /\ mode = "walk" => DepartLines(render.out) = <<>>
        /\ mode # "walk" => ((DepartLines(render.out) # <<>>) <=> HasDeparture)

\* The name " bus " on a leg without departure times: the rendering of a
\* bus, without a departure line.
C27_Witness ==
  /\ OneLeg /\ ~TheTransportation.nil
  /\ TheTransportation.ProductName = <<" ", "b", "u", "s", " ">>
  /\ TheTransportation.Number = "177" /\ TheTransportation.Destination = "Odenplan"
  /\ ~HasDeparture
  /\ IconLines(render.out) = << <<"[bus]", "177", "->", "Odenplan">> >>
  /\ DepartLines(render.out) = <<>>

Matching(query, sites) ==
  LET holds(site) == Contains(ToLower(site.Name), ToLower(query))
  IN  SelectSeq(sites, holds)
Least(a, b) == IF a < b THEN a ELSE b

\* C29: FuzzyMatch returns the first min(count, m) of the m matching sites
\* in source order, and never more than count of them, for every count, 0
\* and the negative ones included.
C29_NeverMoreThanCount ==
  match.done =>
    LET all == Matching(match.query, match.sites)
        k == IF match.count < 0 THEN 0 ELSE Least(match.count, Len(all))
    IN  /\ match.out = SubSeq(all, 1, k)
        /\ Len(match.out) <= match.count

\* From a count of one on, FuzzyMatch returns the first min(count, m)
\* matching sites; for a count of zero or less it returns the first
\* matching site, if there is one.
FuzzyMatchStopsAfterAppending ==
  match.done =>
    LET all == Matching(match.query, match.sites)
    IN  IF match.count >= 1
        THEN match.out = SubSeq(all, 1, Least(match.count, Len(all)))
        ELSE match.out = SubSeq(all, 1, Least(1, Len(all)))

\* A count of 0 on two matching sites: one site is returned.
C29_OneForCountZero ==
  /\ match.done /\ match.count = 0
  /\ Len(Matching(match.query, match.sites)) = 2
  /\ Len(match.out) = 1

\* ------------------------------------------------------- fetch itinerary

IsTrip(rec) == rec.kind \in {"towork", "tohome"}
\* Handler p takes a step of "to work" or "to home": its dispatch, or the
\* answer of the trip search.
TripDispatch(p) == IsTrip(procs'[p]) /\ procs'[p] # procs[p] /\ procs[p].pc # "trips"
TripAnswer(p) == IsTrip(procs[p]) /\ procs[p].pc = "trips" /\ procs'[p] # procs[p]
\* The user's saved location for an end, or the configured default.
HomeOf(userID) ==
  IF userID \in DOMAIN prefs /\ prefs[userID].HomeLocation # ""
  THEN prefs[userID].HomeLocation ELSE homeSiteID
WorkOf(userID) ==
  IF userID \in DOMAIN prefs /\ prefs[userID].WorkLocation # ""
  THEN prefs[userID].WorkLocation ELSE workSiteID
PriorityOf(userID) ==
  IF userID \in DOMAIN prefs THEN prefs[userID].RoutePriority ELSE <<>>

\* C30: "to work" searches from home to work and "to home" from work to
\* home, each end being the user's saved location or else the default, with
\* the user's stored priority; with an end empty there is no trip search
\* and one hint; a failed trip search gives one error message and no
\* rendering; and no step of the command changes the preferences or the
\* pending lists.
C30_FetchUsesSavedOrDefault ==
  [][\A p \in Procs :
       /\ TripDispatch(p) =>
            LET me == procs'[p]
                from == IF me.kind = "towork" THEN HomeOf(me.userID) ELSE WorkOf(me.userID)
                to == IF me.kind = "towork" THEN WorkOf(me.userID) ELSE HomeOf(me.userID)
            IN  /\ me.origin = from /\ me.destination = to
                /\ me.trips = 0 /\ me.formatted = <<>>
                /\ IF from = "" \/ to = ""
                   THEN /\ me.pc = "done" /\ me.outcome = "LocationsUnset"
                        /\ me.sent = << TextMsg("Set your locations first", "") >>
                   ELSE /\ me.pc = "trips" /\ me.sent = <<>>
                        /\ me.routeType = PriorityOf(me.userID)
       /\ TripAnswer(p) =>
            LET me == procs'[p]
            IN  /\ me.pc = "done" /\ me.trips = 1
                /\ me.origin = procs[p].origin /\ me.destination = procs[p].destination
                /\ me.routeType = procs[p].routeType
                /\ Len(me.sent) = 1
                /\ \/ /\ me.outcome = "FetchFailed" /\ me.formatted = <<>>
                      /\ me.sent[1] = TextMsg("Error fetching trips", "")
                   \/ /\ me.outcome = "Rendered" /\ me.formatted # <<>>
                      /\ me.sent[1] = TextMsg("formatted", "")
       /\ (TripDispatch(p) \/ TripAnswer(p)) =>
            /\ prefs' = prefs
            /\ pendingHome' = pendingHome /\ pendingWork' = pendingWork
    ]_vars

\* "to work" from a user who saved a work location and a priority and no
\* home location: the search went from the default home to the saved work
\* location with that priority, and was rendered.
C30_Witness ==
  \E p \in Procs :
    /\ procs[p].kind = "towork" /\ procs[p].pc = "done"
    /\ procs[p].outcome = "Rendered" /\ procs[p].trips = 1
    /\ procs[p].origin = homeSiteID
    /\ procs[p].userID \in DOMAIN prefs
    /\ procs[p].destination = prefs[procs[p].userID].WorkLocation
    /\ procs[p].destination # ""
    /\ procs[p].routeType # <<>>
    /\ procs[p].routeType = prefs[procs[p].userID].RoutePriority


\* ------------------------------------------------- resolution and its list

\* The step in which click p calls the store.
SaveStep(p) == procs[p].kind = "callback" /\ procs[p].pc = "save" /\ Stepped(p)
\* Handler q has returned having resolved (role, userID): by the single
\* match of a query, or by a click.
ResolvedFor(q, role, userID) ==
  /\ procs[q].pc = "done" /\ procs[q].outcome = "Resolved"
  /\ procs[q].role = role /\ procs[q].userID = userID
\* No query has stored a list since q read the store (a click) or wrote its
\* single match (a query).
NoListSince(q) == procs[q].gen = issued
LocationAfter(role, userID) ==
  IF userID \in DOMAIN prefs' THEN LocationOf(role, prefs'[userID]) ELSE ""

\* C31 as claimed: once (user, role) has been resolved, by a single match or
\* by a click, and no query has stored a new list since, the save of a
\* click for that (user, role) does not change the saved location.
C31_ResolvedIsTerminal ==
  [][\A p, q \in Procs :
       (/\ p # q /\ SaveStep(p)
        /\ ResolvedFor(q, procs[p].role, procs[p].userID)
        /\ NoListSince(q))
       => LocationAfter(procs[p].role, procs[p].userID)
            = LocationOf(procs[p].role, GetPrefs(procs[p].userID))]_vars

\* What does hold when updates are handled one at a time: after a click has
\* resolved (user, role), no later click for it reaches the store until a
\* query stores a new list.
ClickResolvedIsTerminal ==
  [][\A p, q \in Procs :
       (/\ p # q /\ SaveStep(p)
        /\ ResolvedFor(q, procs[p].role, procs[p].userID)
        /\ procs[q].kind = "callback"
        /\ NoListSince(q))
       => FALSE]_vars


\* Click p came from a prompt and has called the store.
PromptClickSaved(p) ==
  /\ LocationClick(p) /\ procs[p].message.kind = "prompt"
  /\ procs[p].writes # <<>>
\* The label of the button click p was made on.
ClickedLabel(p) == procs[p].message.buttons[procs[p].selectionIndex + 1].label

\* C32 as claimed: the candidate a click saves is the one its button named,
\* also when a later query for the same (user, role) has sent a newer
\* prompt since.
C32_ClickPersistsTheOptionNamed ==
  \A p \in Procs :
    PromptClickSaved(p) =>
      /\ << procs[p].selected.Name, procs[p].selected.Type >> = ClickedLabel(p)
      /\ procs[p].writes[1] = << procs[p].role, procs[p].userID, procs[p].selected.ID >>


\* ----------------------------------------------------- what an update touches

\* The stored list of (role, userID), if any, before and after a step.
EntryOf(role, userID) ==
  IF userID \in DOMAIN PendingOf(role) THEN << PendingOf(role)[userID] >> ELSE <<>>
EntryAfter(role, userID) ==
  IF role = "home"
  THEN (IF userID \in DOMAIN pendingHome' THEN << pendingHome'[userID] >> ELSE <<>>)
  ELSE (IF userID \in DOMAIN pendingWork' THEN << pendingWork'[userID] >> ELSE <<>>)
PrefsAfter(userID) == IF userID \in DOMAIN prefs' THEN << prefs'[userID] >> ELSE <<>>
PrefsBefore(userID) == IF userID \in DOMAIN prefs THEN << prefs[userID] >> ELSE <<>>
\* A query for (role, userID) that the stop finder answered with two or
\* more locations, or a click for (role, userID).
QueryOrClickFor(rec, role, userID) ==
  /\ rec.userID = userID /\ rec.role = role
  /\ \/ rec.kind = "set" \o role /\ rec.lookup = "ok" /\ Len(rec.locs) >= 2
     \/ rec.kind = "callback"

\* C33: a step changes the pending entry of (user, role) only when it is a
\* step of a query for that (user, role) with two or more candidates or of a
\* click for that (user, role); the steps of every other update (another
\* user, the other role, a fetch, /prefs, /help, /setpriority, a priority
\* click, a failed or zero- or one-result query) leave it as it is, and the
\* steps of an update of one user leave every other user's preferences as
\* they are.
C33_UpdatesTouchOnlyTheirOwn ==
  [][\A p \in Procs :
       Stepped(p) =>
         /\ \A role \in Roles, u \in Users :
              EntryAfter(role, u) # EntryOf(role, u)
                => QueryOrClickFor(procs'[p], role, u)
         /\ \A u \in Users :
              u # procs'[p].userID => PrefsAfter(u) = PrefsBefore(u)]_vars

\* User 1's home list is stored and stays so while /prefs is answered and a
\* click of user 2 has been handled to its end.
C33_Witness ==
  /\ Holds("home", 1)
  /\ \E p, q \in Procs :
       /\ procs[p].kind = "prefs" /\ procs[p].pc = "done"
       /\ procs[q].kind = "callback" /\ procs[q].pc = "done"
       /\ procs[q].userID = 2 /\ procs[q].role = "home"


\* ------------------------------------------------------ the lists stored

StoredLists ==
  { pendingHome[u] : u \in DOMAIN pendingHome } \cup { pendingWork[u] : u \in DOMAIN pendingWork }

\* C34: every list in the pending maps has at least 2 and at most 5
\* locations; no empty list and no list of one is ever stored.
C34_StoredListsHaveTwoToFive ==
  \A l \in StoredLists : 2 <= Len(l) /\ Len(l) <= 5

\* A list of two is stored for one role and the backend's six locations,
\* cut to five, for the other.
C34_Witness ==
  /\ \E l \in StoredLists : Len(l) = 2
  /\ \E l \in StoredLists : Len(l) = 5
  /\ \E p \in Procs : procs[p].outcome = "PromptIssued" /\ Len(procs[p].locs) = 5


\* ------------------------------------------------------------ the stop finder

\* What the backend, or the dry run's fixture, returned for the call.
Returned ==
  IF call.arg.dryRun
  THEN << [ID |-> "dry:home", Name |-> "Storgatan", Type |-> "address"],
          [ID |-> "dry:work", Name |-> "Frosunda torg", Type |-> "stop"],
          [ID |-> "dry:alt", Name |-> "Odenplan", Type |-> "stop"] >>
  ELSE call.arg.respLocations
FinderAnswered ==
  call.op = "StopFinder" /\ call.ret # <<>> /\ ~call.ret[1].err
\* The number of locations the claim expects of n with the call's limit.
Expected(n) ==
  IF call.arg.limit > 0
  THEN (IF call.arg.limit < n THEN call.arg.limit ELSE n)
  ELSE n

\* C35: a StopFinder call that returns without error returns the first
\* min(limit, n) of the n locations the backend (or the dry run's fixture)
\* returned when limit > 0, and all n when limit <= 0, each at the position
\* it was returned at.
C35_FirstLimitInBackendOrder ==
  FinderAnswered =>
    LET locs == call.ret[1].locs
    IN  /\ Len(locs) = Expected(Len(Returned))
        /\ \A i \in 1..Len(locs) : locs[i] = Returned[i]

\* Three locations from the backend, one of them twice, and limit 2: the
\* first two are returned.
C35_Witness ==
  /\ FinderAnswered
  /\ ~call.arg.dryRun
  /\ call.arg.limit = 2
  /\ Len(call.arg.respLocations) = 3
  /\ call.arg.respLocations[1] = call.arg.respLocations[3]
  /\ Len(call.ret[1].locs) = 2


\* ------------------------------------------------- a write that reports failure

\* What GetPrefs(userID) returns after the step.
GetPrefsNext(userID) == IF userID \in DOMAIN prefs' THEN prefs'[userID] ELSE NoPrefs
\* The step is a SetHome, SetWork or SetPriority call that returns an error.
FailedWrite ==
  /\ call' # call
  /\ call'.op \in {"SetHome", "SetWork", "SetPriority"}
  /\ call'.failed

\* C36 as claimed: a SetHome, SetWork or SetPriority call that returns an
\* error leaves what GetPrefs returns, for every user, as it was before the
\* call.
C36_FailedWriteChangesNothing ==
  [][FailedWrite => \A u \in Users : GetPrefsNext(u) = GetPrefs(u)]_vars


\* --------------------------------------------- the store, called concurrently

\* The calls one after another, in the order given: what each GetPrefs must
\* have returned, and the preferences at the end.
NoneSaved == [u \in Users |-> NoPrefs]
Applied(view, c) ==
  CASE c.op = "SetHome" -> [view EXCEPT ![c.userID].HomeLocation = c.arg]
    [] c.op = "SetWork" -> [view EXCEPT ![c.userID].WorkLocation = c.arg]
    [] c.op = "SetPriority" -> [view EXCEPT ![c.userID].RoutePriority = c.arg]
    [] OTHER -> view
RECURSIVE Explains(_, _, _)
Explains(order, i, view) ==
  IF i > MaxCallers THEN \A u \in Users : GetPrefs(u) = view[u]
  ELSE LET c == call[order[i]]
       IN  /\ c.op = "GetPrefs" => c.ret = << view[c.userID] >>
           /\ Explains(order, i + 1, Applied(view, c))
Orders == { o \in [Callers -> Callers] : \A s, t \in Callers : s # t => o[s] # o[t] }
AllCallsDone == \A t \in Callers : call[t].pc = "done"
\* What a GetPrefs call has returned stays as it is.
SnapshotKept ==
  \A t \in Callers :
    (call[t].op = "GetPrefs" /\ call[t].ret # <<>>) => call'[t].ret = call[t].ret

\* C37: for every interleaving of concurrent SetHome, SetWork, SetPriority
\* and GetPrefs calls there is one order of the calls that explains every
\* GetPrefs result and the preferences at the end (each field holds the last
\* write to it in that order, and no write to a field is lost to a write to
\* another field), and what GetPrefs returned is not changed by later
\* writes.
C37_StoreCallsLinearizable ==
  /\ [](AllCallsDone => \E o \in Orders : Explains(o, 1, NoneSaved))
  /\ [][SnapshotKept]_vars

\* Home and work of user 1 are written by two callers while a third reads:
\* the read saw the home write only, and both writes are there at the end.
C37_Witness ==
  /\ AllCallsDone
  /\ \E r, h, w \in Callers :
       /\ call[h].op = "SetHome" /\ call[h].userID = 1
       /\ call[w].op = "SetWork" /\ call[w].userID = 1
       /\ call[r].op = "GetPrefs" /\ call[r].userID = 1
       /\ call[r].ret[1].HomeLocation = call[h].arg
       /\ call[r].ret[1].WorkLocation = ""
       /\ GetPrefs(1).HomeLocation = call[h].arg
       /\ GetPrefs(1).WorkLocation = call[w].arg


\* ------------------------------------------------------------ the tokens

TokenClicked == call.op = "token" /\ call.ret # <<>>

\* C38: the data of a location button for (role, user ID, position), for
\* both roles, user IDs of either sign and every position from 0, is taken
\* by HandleCallback as a click of that role, that user and that position;
\* the data of each of the three priority buttons as the priority choice of
\* that user with that value.
C38_TokensRoundTrip ==
  TokenClicked =>
    LET callback == call.ret[1].callback
    IN  /\ callback.userID = call.userID
        /\ call.arg.kind = "location" =>
             /\ callback.pc = "rlock"
             /\ callback.role = call.arg.role
             /\ callback.selectionIndex = call.arg.position
        /\ call.arg.kind = "priority" =>
             /\ callback.pc = "setpriority"
             /\ call.ret[1].value = << call.arg.value >>

\* The work button at position 10 of user -12.
C38_Witness ==
  /\ TokenClicked
  /\ call.userID = -12
  /\ call.arg.kind = "location" /\ call.arg.role = "work" /\ call.arg.position = 10
  /\ call.ret[1].data = <<"workjp", "_", "-", "1", "2", "_", "1", "0">>
  /\ call.ret[1].callback.selectionIndex = 10


\* ------------------------------------------------- the site-ID handler's clicks

\* The decimal text of the site IDs of the catalogue.
SiteIDText == (1 :> <<"1">>) @@ (2 :> <<"2">>) @@ (3 :> <<"3">>) @@ (12 :> <<"1", "2">>)
UserIDText == (1 :> <<"1">>) @@ (2 :> <<"2">>)
\* The update of this step is a click with data <role>_<user>_<siteID>,
\* handled in slot p.
SiteClickIn(p, role, userID, siteID) ==
  /\ started' = started + 1 /\ FirstFree(p)
  /\ procs'[p].kind = "callback"
  /\ procs'[p].data = << role, "_" >> \o UserIDText[userID] \o << "_" >> \o SiteIDText[siteID]
\* A site with the ID is in the list stored for (role, userID).
Listed(role, userID, siteID) ==
  \E i \in 1..Len(MapGet(PendingOf(role), userID)) :
    MapGet(PendingOf(role), userID)[i].SiteID = siteID

\* C39: a click home_<user>_<siteID> or work_<user>_<siteID> writes the site
\* ID as the user's location of that role if and only if a site with that
\* ID is in the list stored for that user and role; when the write succeeds
\* the entry is deleted; when no such site is in the list the answer is
\* 'Site not found in pending selections', nothing is written and the
\* pending lists stay as they are.
C39_SiteClickPersistsIffListed ==
  [][\A p \in Procs, role \in Roles, u \in Users, id \in DOMAIN SiteIDText :
       SiteClickIn(p, role, u, id) =>
         /\ procs'[p].writes # <<>> <=> Listed(role, u, id)
         /\ Listed(role, u, id) =>
              /\ procs'[p].writes = << << role, u, SiteIDText[id] >> >>
              /\ LocationAfter(role, u) = SiteIDText[id]
         /\ (Listed(role, u, id) /\ ~procs'[p].saveErr) =>
              /\ EntryAfter(role, u) = <<>>
              /\ procs'[p].outcome = "Resolved"
         /\ ~Listed(role, u, id) =>
              /\ procs'[p].sent = << TextMsg("Site not found in pending selections", "") >>
              /\ prefs' = prefs
              /\ PendingUnchanged]_vars

\* User 1 asked for "c", got the two sites holding it, and clicked the
\* button of site 12: it is saved as home and the list is gone.
C39_Witness ==
  \E p \in Procs :
    /\ procs[p].kind = "callback" /\ procs[p].outcome = "Resolved"
    /\ procs[p].data = <<"home", "_", "1", "_", "1", "2">>
    /\ Len(procs[p].matches) = 2
    /\ 1 \in DOMAIN prefs /\ prefs[1].HomeLocation = <<"1", "2">>
    /\ 1 \notin DOMAIN pendingHome

====
